---- MODULE Spec2Model ----
(***************************************************************************)
(* Psychrometric calculator (src/script.js) and its batch CSV runner       *)
(* (class CSVProcessor, src/unnamed/part_000).                             *)
(*                                                                         *)
(* JavaScript numbers are modelled as decimal floating point values        *)
(* <<m, e>> = m * 10^e with an 8-digit mantissa (10^7 <= |m| < 10^8, or    *)
(* m = 0), plus NaN, +Infinity and -Infinity.  Arithmetic rounds to        *)
(* nearest.  Negative zero is not distinguished from zero.                 *)
(***************************************************************************)
EXTENDS Integers, Sequences, FiniteSets, TLC

----------------------------------------------------------------------------
(* Numbers *)

\* The value undefined where a number is expected (an unassigned let).
Undefined == <<0, 998>>
NaN == <<0, 999>>
PosInf == <<1, 999>>
NegInf == <<-1, 999>>
Zero == <<0, 0>>

IsNaN(x) == x = NaN
IsInf(x) == x = PosInf \/ x = NegInf
IsFinite(x) == x[2] < 998
Sign(x) == IF x[1] < 0 THEN -1 ELSE IF x[1] > 0 THEN 1 ELSE 0

NumDigits(a) ==
    IF a < 100000
    THEN (IF a < 100 THEN (IF a < 10 THEN 1 ELSE 2)
          ELSE IF a < 1000 THEN 3 ELSE IF a < 10000 THEN 4 ELSE 5)
    ELSE (IF a < 10000000 THEN (IF a < 1000000 THEN 6 ELSE 7)
          ELSE IF a < 100000000 THEN 8 ELSE IF a < 1000000000 THEN 9 ELSE 10)

\* A finite result with overflow to Infinity and underflow to 0.
Fin(m, e) ==
    IF e > 301 THEN (IF m < 0 THEN NegInf ELSE PosInf)
    ELSE IF e < -331 THEN Zero
    ELSE <<m, e>>

NormAbs(s, a, e, n) ==
    IF n <= 8 THEN Fin(s * a * 10^(8 - n), e - (8 - n))
    ELSE IF (a + 5 * 10^(n - 9)) \div 10^(n - 8) = 100000000
         THEN Fin(s * 10000000, e + (n - 8) + 1)
         ELSE Fin(s * ((a + 5 * 10^(n - 9)) \div 10^(n - 8)), e + (n - 8))

\* The number m * 10^e, rounded to 8 significant digits.
Norm(m, e) ==
    IF m = 0 THEN Zero
    ELSE IF m < 0 THEN NormAbs(-1, -m, e, NumDigits(-m))
    ELSE NormAbs(1, m, e, NumDigits(m))

Dec(m, e) == Norm(m, e)

Num(n) == Norm(n, 0)

\* y, once x has been evaluated: fixes the order of evaluation in the loops.
Then(x, y) == IF x = x THEN y ELSE y

FNeg(x) == IF IsNaN(x) THEN NaN ELSE <<-x[1], x[2]>>
FAbs(x) == IF x[1] < 0 THEN <<-x[1], x[2]>> ELSE x

\* x + y for finite non-zero x, y with x[2] >= y[2]: one guard digit.
AddAligned(x, y) ==
    IF x[2] - y[2] >= 10 THEN x
    ELSE IF x[2] = y[2] THEN Norm(x[1] + y[1], x[2])
    ELSE IF y[1] < 0
         THEN Norm(x[1] * 10 - ((-y[1]) \div 10^(x[2] - y[2] - 1)), x[2] - 1)
         ELSE Norm(x[1] * 10 + (y[1] \div 10^(x[2] - y[2] - 1)), x[2] - 1)

FAdd(x, y) ==
    IF IsNaN(x) \/ IsNaN(y) THEN NaN
    ELSE IF IsInf(x) THEN (IF IsInf(y) /\ x # y THEN NaN ELSE x)
    ELSE IF IsInf(y) THEN y
    ELSE IF x[1] = 0 THEN y
    ELSE IF y[1] = 0 THEN x
    ELSE IF x[2] >= y[2] THEN AddAligned(x, y)
    ELSE AddAligned(y, x)

FSub(x, y) == FAdd(x, FNeg(y))

\* floor(a * b / 10^7) for 8-digit a, b, by 4-digit limbs.
MulAbs(h1, l1, h2, l2) ==
    10 * h1 * h2 + ((h1 * l2 + l1 * h2 + ((l1 * l2) \div 10000)) \div 1000)

FMul(x, y) ==
    IF IsNaN(x) \/ IsNaN(y) THEN NaN
    ELSE IF IsInf(x) \/ IsInf(y)
         THEN (IF x[1] = 0 \/ y[1] = 0 THEN NaN
               ELSE IF Sign(x) * Sign(y) < 0 THEN NegInf ELSE PosInf)
    ELSE IF x[1] = 0 \/ y[1] = 0 THEN Zero
    ELSE Norm(Sign(x) * Sign(y)
                * MulAbs(FAbs(x)[1] \div 10000, FAbs(x)[1] % 10000,
                         FAbs(y)[1] \div 10000, FAbs(y)[1] % 10000),
              x[2] + y[2] + 7)

\* Long division: n more decimal digits of r / b appended to acc.
RECURSIVE DivDigits(_, _, _, _)
DivDigits(r, b, n, acc) ==
    IF n = 0 THEN acc
    ELSE DivDigits((r * 10) % b, b, n - 1, acc * 10 + ((r * 10) \div b))

FDiv(x, y) ==
    IF IsNaN(x) \/ IsNaN(y) THEN NaN
    ELSE IF IsInf(x)
         THEN (IF IsInf(y) THEN NaN
               ELSE IF Sign(x) * (IF y[1] < 0 THEN -1 ELSE 1) < 0 THEN NegInf ELSE PosInf)
    ELSE IF IsInf(y) THEN Zero
    ELSE IF y[1] = 0
         THEN (IF x[1] = 0 THEN NaN ELSE IF x[1] < 0 THEN NegInf ELSE PosInf)
    ELSE IF x[1] = 0 THEN Zero
    ELSE Norm(Sign(x) * Sign(y)
                * DivDigits(FAbs(x)[1] % FAbs(y)[1], FAbs(y)[1], 8,
                            FAbs(x)[1] \div FAbs(y)[1]),
              x[2] - y[2] - 8)

\* JavaScript comparisons: any comparison with NaN is false.
FLt(x, y) ==
    IF IsNaN(x) \/ IsNaN(y) THEN FALSE
    ELSE IF x = y THEN FALSE
    ELSE IF IsInf(x) THEN x = NegInf
    ELSE IF IsInf(y) THEN y = PosInf
    ELSE FSub(x, y)[1] < 0
FGt(x, y) == FLt(y, x)
FLe(x, y) == ~IsNaN(x) /\ ~IsNaN(y) /\ ~FLt(y, x)
FGe(x, y) == FLe(y, x)

\* Math.min / Math.max of two numbers: NaN if either is NaN.
MathMin(x, y) == IF IsNaN(x) \/ IsNaN(y) THEN NaN ELSE IF FLt(y, x) THEN y ELSE x
MathMax(x, y) == IF IsNaN(x) \/ IsNaN(y) THEN NaN ELSE IF FLt(x, y) THEN y ELSE x

\* floor(x) as an integer, for finite x with |x| < 10^9.
FloorInt(x) ==
    IF x[2] >= 0 THEN x[1] * 10^x[2]
    ELSE IF x[2] < -9 THEN (IF x[1] < 0 THEN -1 ELSE 0)
    ELSE x[1] \div 10^(-x[2])

----------------------------------------------------------------------------
(* Math.pow and Math.log10 *)

LN10 == Dec(23025851, -7)
LOG10E == Dec(43429448, -8)

\* 10^(d/10) for d = 0..9
Pow10Tenths ==
    << Dec(10000000, -7), Dec(12589254, -7), Dec(15848932, -7), Dec(19952623, -7),
       Dec(25118864, -7), Dec(31622777, -7), Dec(39810717, -7), Dec(50118723, -7),
       Dec(63095734, -7), Dec(79432823, -7) >>

\* Horner evaluation of the exponential series: 1 + u/1 (1 + u/2 (1 + ...)).
RECURSIVE ExpSeries(_, _, _)
ExpSeries(u, k, r) ==
    IF k = 0 THEN r
    ELSE Then(r, ExpSeries(u, k - 1, FAdd(Num(1), FDiv(FMul(u, r), Num(k)))))

\* 10^f for 0 <= f < 1, from the tenths digit d of f.
Pow10Frac(f, d) ==
    FMul(Pow10Tenths[d + 1],
         ExpSeries(FMul(FSub(f, Dec(d, -1)), LN10), 9, Num(1)))

ScaleP10(x, n) == IF x[1] = 0 THEN x ELSE Fin(x[1], x[2] + n)

\* 10^x for finite x with |x| < 1000, n = floor(x).
Pow10Split(x, n) ==
    ScaleP10(Pow10Frac(FSub(x, Num(n)), FloorInt(FMul(FSub(x, Num(n)), Num(10)))), n)

\* Math.pow(10, x)
MathPow10(x) ==
    IF IsNaN(x) THEN NaN
    ELSE IF x = PosInf THEN PosInf
    ELSE IF x = NegInf THEN Zero
    ELSE IF FGe(x, Num(400)) THEN PosInf
    ELSE IF FLe(x, Num(-400)) THEN Zero
    ELSE Pow10Split(x, FloorInt(x))

\* 10^(j/4) for j = 0..4
Pow10Quarters ==
    << Dec(10000000, -7), Dec(17782794, -7), Dec(31622777, -7), Dec(56234133, -7),
       Dec(10000000, -6) >>

\* 2 * atanh(z) = ln((1+z)/(1-z)), by its series in z2 = z*z.
RECURSIVE AtanhSeries(_, _, _)
AtanhSeries(z2, k, r) ==
    IF k = 0 THEN r
    ELSE Then(r, AtanhSeries(z2, k - 1,
                             FAdd(FDiv(Num(1), Num(2 * k - 1)), FMul(z2, r))))

AtanhTwice(z) == FMul(Num(2), FMul(z, AtanhSeries(FMul(z, z), 7, Zero)))

\* ln(r) for r near 1
LnNearOne(r) == AtanhTwice(FDiv(FSub(r, Num(1)), FAdd(r, Num(1))))

\* log10 of (m / 10^7) / 10^(j/4), a number within [10^-0.125, 10^0.125]
Log10Mant(m, j) == FMul(LnNearOne(FDiv(<<m, -7>>, Pow10Quarters[j + 1])), LOG10E)

QuarterOf(m) ==
    IF m < 13335214 THEN 0
    ELSE IF m < 23713737 THEN 1
    ELSE IF m < 42169650 THEN 2
    ELSE IF m < 74989421 THEN 3
    ELSE 4

\* Math.log10(x)
MathLog10(x) ==
    IF IsNaN(x) THEN NaN
    ELSE IF x[1] < 0 THEN NaN
    ELSE IF x[1] = 0 THEN NegInf
    ELSE IF x = PosInf THEN PosInf
    ELSE FAdd(Dec(100 * (x[2] + 7) + 25 * QuarterOf(x[1]), -2),
              Log10Mant(x[1], QuarterOf(x[1])))

\* Math.pow(b, y) for a positive non-integer exponent y.
MathPow(b, y) ==
    IF IsNaN(b) \/ IsNaN(y) THEN NaN
    ELSE IF b[1] < 0 THEN (IF b = NegInf THEN PosInf ELSE NaN)
    ELSE IF b[1] = 0 THEN Zero
    ELSE IF b = PosInf THEN PosInf
    ELSE MathPow10(FMul(y, MathLog10(b)))

----------------------------------------------------------------------------
(* Physical constants, src/script.js:19-106 *)

R_AIR == Dec(287055, -3)
CP_AIR == Num(1006)
HVAP == Num(2501000)
ANTOINE_A == Dec(807131, -5)
ANTOINE_B == Dec(173063, -2)
ANTOINE_C == Dec(233426, -3)
MMHG_TO_KPA == Dec(133322, -6)
MW_RATIO == Dec(621945, -6)
STANDARD_PRESSURE == Dec(101325, -3)
LAPSE_RATE == Dec(65, -4)
STANDARD_TEMP_K == Dec(28815, -2)
PRESSURE_EXPONENT == Dec(5255, -3)
CP_VAPOR == Dec(186, -2)
JOULE_TO_KILOJOULE == Dec(1, -3)

----------------------------------------------------------------------------
(* Saturation and pressure functions, direct converters *)

saturatedVaporPressure(temp) ==
    FMul(MathPow10(FSub(ANTOINE_A, FDiv(ANTOINE_B, FAdd(ANTOINE_C, temp)))),
         MMHG_TO_KPA)

barometricPressure(altitude) ==
    FMul(STANDARD_PRESSURE,
         MathPow(FSub(Num(1), FDiv(FMul(LAPSE_RATE, altitude), STANDARD_TEMP_K)),
                 PRESSURE_EXPONENT))

\* ratio * p_w / (pressure - p_w): the humidity ratio at vapour pressure p_w.
RatioAtVaporPressure(ratio, p_w, pressure) ==
    FDiv(FMul(ratio, p_w), FSub(pressure, p_w))

\* humidityRatio * pressure / (ratio + humidityRatio): the vapour pressure
\* at a humidity ratio.
VaporPressureAtRatio(ratio, humidityRatio, pressure) ==
    FDiv(FMul(humidityRatio, pressure), FAdd(ratio, humidityRatio))

\* numerator / denominator of calculateHumidityRatio, from w_ws_wbt.
HumidityRatioFromSaturation(dbt, wbt, w_ws_wbt) ==
    FDiv(FSub(FMul(FSub(Num(1093), FMul(Dec(556, -3), wbt)), w_ws_wbt),
              FMul(Dec(240, -3), FSub(dbt, wbt))),
         FSub(FAdd(Num(1093), FMul(Dec(444, -3), dbt)), wbt))

calculateHumidityRatio(dbt, wbt, pressure) ==
    HumidityRatioFromSaturation(dbt, wbt,
        RatioAtVaporPressure(MW_RATIO, saturatedVaporPressure(wbt), pressure))

\* Math.min(100, Math.max(0, (p_w / p_ws) * 100))
RelativeHumidityOf(p_w, p_ws) ==
    MathMin(Num(100), MathMax(Zero, FMul(FDiv(p_w, p_ws), Num(100))))

calculateRelativeHumidity(dbt, humidityRatio, pressure) ==
    RelativeHumidityOf(VaporPressureAtRatio(MW_RATIO, humidityRatio, pressure),
                       saturatedVaporPressure(dbt))

\* p_w / 0.133322, the argument of Math.log10 in calculateDewPoint.
DewPointLogArgument(humidityRatio, pressure) ==
    FDiv(VaporPressureAtRatio(Dec(621945, -6), humidityRatio, pressure), Dec(133322, -6))

calculateDewPoint(humidityRatio, pressure) ==
    FSub(FDiv(ANTOINE_B,
              FSub(ANTOINE_A, MathLog10(DewPointLogArgument(humidityRatio, pressure)))),
         ANTOINE_C)

calculateEnthalpy(dbt, humidityRatio) ==
    FAdd(FMul(FMul(CP_AIR, JOULE_TO_KILOJOULE), dbt),
         FMul(humidityRatio,
              FAdd(FMul(HVAP, JOULE_TO_KILOJOULE), FMul(CP_VAPOR, dbt))))

calculateSpecificVolume(dbt, humidityRatio, pressure) ==
    FDiv(FMul(R_AIR, FAdd(dbt, Dec(27315, -2))),
         FMul(FSub(pressure,
                   VaporPressureAtRatio(Dec(621945, -6), humidityRatio, pressure)),
              Num(1000)))

calculateHumidityRatioFromDBTRH(dbt, rh, pressure) ==
    RatioAtVaporPressure(MW_RATIO, FMul(FDiv(rh, Num(100)), saturatedVaporPressure(dbt)),
                         pressure)

calculateHumidityRatioFromDewPoint(dpt, pressure) ==
    RatioAtVaporPressure(Dec(621945, -6), saturatedVaporPressure(dpt), pressure)

calculateRelativeHumidityFromDewPoint(dbt, dpt) ==
    RelativeHumidityOf(saturatedVaporPressure(dpt), saturatedVaporPressure(dbt))

----------------------------------------------------------------------------
(* Iterative solvers *)

\* The state of a solver loop: the iterate x, the number of loop passes
\* begun, and whether the loop has left through its break.
LoopStart(x0) == [x |-> x0, passes |-> 0, done |-> FALSE]

LoopBreak(st) == [x |-> st.x, passes |-> st.passes + 1, done |-> TRUE]
LoopContinue(st, x1) == [x |-> x1, passes |-> st.passes + 1, done |-> FALSE]

\* if (x > hi) x = hi; else if (x < lo) x = lo;
ConstrainAboveFirst(x, lo, hi) ==
    IF FGt(x, hi) THEN hi
    ELSE IF FLt(x, lo) THEN lo
    ELSE x

\* The rest of a pass of calculateWetBulbFromDBTRH once difference is known.
WetBulbFromDBTRHStep(st, dbt, difference) ==
    IF FLt(FAbs(difference), Dec(1, -2)) THEN LoopBreak(st)
    ELSE LoopContinue(st, ConstrainAboveFirst(FAdd(st.x, FMul(difference, Num(10))),
                                               Num(-50), dbt))

\* One pass of the for loop of calculateWetBulbFromDBTRH.
WetBulbFromDBTRHPass(st, dbt, hr_from_rh, pressure) ==
    IF st.done THEN st
    ELSE WetBulbFromDBTRHStep(st, dbt,
             FSub(hr_from_rh, calculateHumidityRatio(dbt, st.x, pressure)))

\* Up to n passes of that loop.
RECURSIVE WetBulbFromDBTRHPasses(_, _, _, _, _)

\* n more passes from the state st, once st has been computed.
WetBulbFromDBTRHPassesFrom(n, st, dbt, hr_from_rh, pressure) ==
    Then(st, WetBulbFromDBTRHPasses(n, st, dbt, hr_from_rh, pressure))

WetBulbFromDBTRHPasses(n, st, dbt, hr_from_rh, pressure) ==
    IF n = 0 THEN st
    ELSE IF n = 1 THEN WetBulbFromDBTRHPass(st, dbt, hr_from_rh, pressure)
    ELSE WetBulbFromDBTRHPassesFrom(n - (n \div 2),
             WetBulbFromDBTRHPasses(n \div 2, st, dbt, hr_from_rh, pressure),
             dbt, hr_from_rh, pressure)

WetBulbFromDBTRHLoop(dbt, rh, pressure) ==
    WetBulbFromDBTRHPasses(50, LoopStart(dbt), dbt,
                           calculateHumidityRatioFromDBTRH(dbt, rh, pressure), pressure)

calculateWetBulbFromDBTRH(dbt, rh, pressure) == WetBulbFromDBTRHLoop(dbt, rh, pressure).x

\* The rest of a pass of calculateWetBulbFromDBTDewPoint once difference is known.
WetBulbFromDBTDewPointStep(st, dbt, dpt, difference) ==
    IF FLt(FAbs(difference), Dec(1, -2)) THEN LoopBreak(st)
    ELSE LoopContinue(st, ConstrainAboveFirst(FSub(st.x, FMul(difference, Num(5))),
                                               dpt, dbt))

\* One pass of the for loop of calculateWetBulbFromDBTDewPoint.
WetBulbFromDBTDewPointPass(st, dbt, dpt, hr_from_dpt, pressure) ==
    IF st.done THEN st
    ELSE WetBulbFromDBTDewPointStep(st, dbt, dpt,
             FSub(hr_from_dpt, calculateHumidityRatio(dbt, st.x, pressure)))

RECURSIVE WetBulbFromDBTDewPointPasses(_, _, _, _, _, _)

\* n more passes from the state st, once st has been computed.
WetBulbFromDBTDewPointPassesFrom(n, st, dbt, dpt, hr_from_dpt, pressure) ==
    Then(st, WetBulbFromDBTDewPointPasses(n, st, dbt, dpt, hr_from_dpt, pressure))

WetBulbFromDBTDewPointPasses(n, st, dbt, dpt, hr_from_dpt, pressure) ==
    IF n = 0 THEN st
    ELSE IF n = 1 THEN WetBulbFromDBTDewPointPass(st, dbt, dpt, hr_from_dpt, pressure)
    ELSE WetBulbFromDBTDewPointPassesFrom(n - (n \div 2),
             WetBulbFromDBTDewPointPasses(n \div 2, st, dbt, dpt, hr_from_dpt, pressure),
             dbt, dpt, hr_from_dpt, pressure)

WetBulbFromDBTDewPointLoop(dbt, dpt, pressure) ==
    WetBulbFromDBTDewPointPasses(50, LoopStart(FDiv(FAdd(dbt, dpt), Num(2))), dbt, dpt,
                                 calculateHumidityRatioFromDewPoint(dpt, pressure), pressure)

calculateWetBulbFromDBTDewPoint(dbt, dpt, pressure) ==
    WetBulbFromDBTDewPointLoop(dbt, dpt, pressure).x

\* if (x < lo) x = lo; else if (x > hi) x = hi;
ConstrainBelowFirst(x, lo, hi) ==
    IF FLt(x, lo) THEN lo
    ELSE IF FGt(x, hi) THEN hi
    ELSE x

\* The Newton-Raphson update of dbt, or the bisection fallback.
SolveDBTUpdate(dbt, wbt, error, derivative) ==
    IF FGt(FAbs(derivative), Dec(1, -10))
    THEN FSub(dbt, FDiv(error, derivative))
    ELSE FDiv(FAdd(dbt, wbt), Num(2))

\* The rest of a pass of solveDBTFromWBTRH once currentHR is known.
SolveDBTStep(st, wbt, targetHR, pressure, currentHR) ==
    IF FLt(FAbs(FSub(currentHR, targetHR)), Dec(1, -3)) THEN LoopBreak(st)
    ELSE LoopContinue(st,
             ConstrainBelowFirst(
                 SolveDBTUpdate(st.x, wbt, FSub(currentHR, targetHR),
                     FDiv(FSub(calculateHumidityRatio(FAdd(st.x, Dec(1, -3)), wbt,
                                                      pressure),
                               currentHR),
                          Dec(1, -3))),
                 FSub(wbt, Num(10)), FAdd(wbt, Num(50))))

\* One pass of the Newton-Raphson loop of solveDBTFromWBTRH.
SolveDBTPass(st, wbt, targetHR, pressure) ==
    IF st.done THEN st
    ELSE SolveDBTStep(st, wbt, targetHR, pressure,
                      calculateHumidityRatio(st.x, wbt, pressure))

RECURSIVE SolveDBTPasses(_, _, _, _, _)

\* n more passes from the state st, once st has been computed.
SolveDBTPassesFrom(n, st, wbt, targetHR, pressure) ==
    Then(st, SolveDBTPasses(n, st, wbt, targetHR, pressure))

SolveDBTPasses(n, st, wbt, targetHR, pressure) ==
    IF n = 0 THEN st
    ELSE IF n = 1 THEN SolveDBTPass(st, wbt, targetHR, pressure)
    ELSE SolveDBTPassesFrom(n - (n \div 2),
             SolveDBTPasses(n \div 2, st, wbt, targetHR, pressure),
             wbt, targetHR, pressure)

\* const targetHR = ... in solveDBTFromWBTRH
SolveDBTTarget(wbt, rh, pressure) ==
    FDiv(FMul(FMul(Dec(621945, -6), FDiv(rh, Num(100))), saturatedVaporPressure(wbt)),
         FSub(pressure, FMul(FDiv(rh, Num(100)), saturatedVaporPressure(wbt))))

SolveDBTLoopFrom(wbt, rh, pressure, targetHR) ==
    SolveDBTPasses(100, LoopStart(FAdd(wbt, FDiv(FSub(Num(100), rh), Num(4)))),
                   wbt, targetHR, pressure)

SolveDBTLoop(wbt, rh, pressure) ==
    SolveDBTLoopFrom(wbt, rh, pressure, SolveDBTTarget(wbt, rh, pressure))

SolveDBTVerify_NeverFallback(wbt, rh, dbt, finalError) == dbt

\* The final verification of solveDBTFromWBTRH, and its fallback.
SolveDBTVerify(wbt, rh, dbt, finalError) ==
    IF FGt(finalError, Dec(5, -2))
    THEN FAdd(wbt, FDiv(FSub(Num(100), rh), Num(3)))
    ELSE dbt

SolveDBTFinalError(finalHR, targetHR) == FDiv(FAbs(FSub(finalHR, targetHR)), targetHR)

SolveDBTFinish(wbt, rh, pressure, targetHR, dbt) ==
    Then(dbt, SolveDBTVerify(wbt, rh, dbt,
                  SolveDBTFinalError(calculateHumidityRatio(dbt, wbt, pressure), targetHR)))

SolveDBTFromTarget(wbt, rh, pressure, targetHR) ==
    SolveDBTFinish(wbt, rh, pressure, targetHR,
                   SolveDBTLoopFrom(wbt, rh, pressure, targetHR).x)

solveDBTFromWBTRH(wbt, rh, pressure) ==
    SolveDBTFromTarget(wbt, rh, pressure, SolveDBTTarget(wbt, rh, pressure))

----------------------------------------------------------------------------
(* Strings are tuples of one-character strings. *)

STR_dbt_wbt == <<"d", "b", "t", "_", "w", "b", "t">>
STR_dbt_rh == <<"d", "b", "t", "_", "r", "h">>
STR_dbt_dpt == <<"d", "b", "t", "_", "d", "p", "t">>
STR_wbt_rh == <<"w", "b", "t", "_", "r", "h">>

----------------------------------------------------------------------------
(* Property resolution *)

\* parseFloat(num.toFixed(decimals)): num rounded to that many decimals,
\* a tie going to the larger magnitude.
ToFixedValue(num, decimals) ==
    IF ~IsFinite(num) \/ num[1] = 0 THEN num
    ELSE IF num[2] + decimals >= 0 THEN num
    ELSE IF -(num[2] + decimals) > 8 THEN Zero
    ELSE Norm(Sign(num) * ((FAbs(num)[1] + 5 * 10^(-(num[2] + decimals) - 1))
                              \div 10^(-(num[2] + decimals))),
              -decimals)

formatNumber_OneDecimal(num, decimals) == ToFixedValue(num, 1)

\* formatNumber; the string returned is the shortest decimal of this value.
formatNumber(num, decimals) == ToFixedValue(num, decimals)

NoState ==
    [dbt |-> Undefined, wbt |-> Undefined, rh |-> Undefined, dpt |-> Undefined,
     humidityRatio |-> Undefined, enthalpy |-> Undefined,
     specificVolume |-> Undefined, vaporPressure |-> Undefined]

Returned(v) == [threw |-> FALSE, error |-> "", value |-> v]
Thrown(msg) == [threw |-> TRUE, error |-> msg, value |-> NoState]

\* let dbt, wbt, rh, dpt, hr;
Unassigned ==
    [dbt |-> Undefined, wbt |-> Undefined, rh |-> Undefined, dpt |-> Undefined,
     hr |-> Undefined]

\* The locals of case 'dbt_wbt' once hr is known.
ResolveDbtWbtFrom(value1, value2, pressure, hr) ==
    [Unassigned EXCEPT !.dbt = value1, !.wbt = value2, !.hr = hr,
        !.rh = calculateRelativeHumidity(value1, hr, pressure),
        !.dpt = calculateDewPoint(hr, pressure)]

\* case 'dbt_wbt'
ResolveDbtWbt(value1, value2, pressure) ==
    ResolveDbtWbtFrom(value1, value2, pressure,
                      calculateHumidityRatio(value1, value2, pressure))

\* The locals of case 'dbt_rh' once hr is known.
ResolveDbtRhFrom(value1, value2, pressure, hr) ==
    [Unassigned EXCEPT !.dbt = value1, !.rh = value2, !.hr = hr,
        !.wbt = calculateWetBulbFromDBTRH(value1, value2, pressure),
        !.dpt = calculateDewPoint(hr, pressure)]

\* case 'dbt_rh'
ResolveDbtRh(value1, value2, pressure) ==
    ResolveDbtRhFrom(value1, value2, pressure,
                     calculateHumidityRatioFromDBTRH(value1, value2, pressure))

ResolveDbtDpt_DptClamped(value1, value2, pressure) ==
    [Unassigned EXCEPT !.dbt = value1, !.dpt = MathMin(value2, value1),
        !.rh = calculateRelativeHumidityFromDewPoint(value1, value2),
        !.hr = calculateHumidityRatioFromDewPoint(value2, pressure),
        !.wbt = calculateWetBulbFromDBTDewPoint(value1, value2, pressure)]

\* case 'dbt_dpt'
ResolveDbtDpt(value1, value2, pressure) ==
    [Unassigned EXCEPT !.dbt = value1, !.dpt = value2,
        !.rh = calculateRelativeHumidityFromDewPoint(value1, value2),
        !.hr = calculateHumidityRatioFromDewPoint(value2, pressure),
        !.wbt = calculateWetBulbFromDBTDewPoint(value1, value2, pressure)]

\* The locals of case 'wbt_rh' once dbt and hr are known.
ResolveWbtRhFrom(value1, value2, pressure, dbt, hr) ==
    [Unassigned EXCEPT !.wbt = value1, !.rh = value2, !.dbt = dbt, !.hr = hr,
        !.dpt = calculateDewPoint(hr, pressure)]

ResolveWbtRhAt(value1, value2, pressure, dbt) ==
    Then(dbt, ResolveWbtRhFrom(value1, value2, pressure, dbt,
                               calculateHumidityRatio(dbt, value1, pressure)))

ResolveWbtRh_RhUnassigned(value1, value2, pressure) ==
    [ResolveWbtRhAt(value1, value2, pressure,
                    solveDBTFromWBTRH(value1, value2, pressure))
        EXCEPT !.rh = Undefined]

\* case 'wbt_rh'
ResolveWbtRh(value1, value2, pressure) ==
    ResolveWbtRhAt(value1, value2, pressure, solveDBTFromWBTRH(value1, value2, pressure))

ResolveDefault_AsDbtRh(value1, value2, pressure) ==
    ResolveDbtRh(value1, value2, pressure)

\* default
ResolveDefault(value1, value2, pressure) ==
    ResolveDbtWbtFrom(value1, value2, pressure,
                      calculateHumidityRatio(value1, value2, pressure))

\* The switch of calculatePsychrometricProperties: the five locals it assigns.
ResolveByInputType(inputType, value1, value2, pressure) ==
    IF inputType = STR_dbt_wbt THEN ResolveDbtWbt(value1, value2, pressure)
    ELSE IF inputType = STR_dbt_rh THEN ResolveDbtRh(value1, value2, pressure)
    ELSE IF inputType = STR_dbt_dpt THEN ResolveDbtDpt(value1, value2, pressure)
    ELSE IF inputType = STR_wbt_rh THEN ResolveWbtRh(value1, value2, pressure)
    ELSE ResolveDefault(value1, value2, pressure)

FloorHumidityRatio_NoFloor(hr) == hr

\* if (hr < 0) hr = 0;
FloorHumidityRatio(hr) == IF FLt(hr, Zero) THEN Zero ELSE hr

AssembleAirState_UnflooredTail(l, hr, pressure) ==
    IF Undefined \in {l.dbt, l.wbt, l.rh, l.dpt, l.hr}
    THEN Thrown("TypeError")
    ELSE Returned(
        [dbt |-> formatNumber(l.dbt, 1),
         wbt |-> formatNumber(l.wbt, 1),
         rh |-> formatNumber(l.rh, 1),
         dpt |-> formatNumber(l.dpt, 1),
         humidityRatio |-> formatNumber(hr, 4),
         enthalpy |-> formatNumber(calculateEnthalpy(l.dbt, l.hr), 1),
         specificVolume |-> formatNumber(calculateSpecificVolume(l.dbt, l.hr, pressure), 3),
         vaporPressure |-> formatNumber(FDiv(FMul(l.hr, pressure),
                                             FAdd(Dec(621945, -6), l.hr)), 2)])

\* The tail of calculatePsychrometricProperties, from the five locals l.
\* toFixed on an unassigned local throws a TypeError.
AssembleAirState(l, hr, pressure) ==
    IF Undefined \in {l.dbt, l.wbt, l.rh, l.dpt, l.hr}
    THEN Thrown("TypeError")
    ELSE Returned(
        [dbt |-> formatNumber(l.dbt, 1),
         wbt |-> formatNumber(l.wbt, 1),
         rh |-> formatNumber(l.rh, 1),
         dpt |-> formatNumber(l.dpt, 1),
         humidityRatio |-> formatNumber(hr, 4),
         enthalpy |-> formatNumber(calculateEnthalpy(l.dbt, hr), 1),
         specificVolume |-> formatNumber(calculateSpecificVolume(l.dbt, hr, pressure), 3),
         vaporPressure |-> formatNumber(FDiv(FMul(hr, pressure),
                                             FAdd(Dec(621945, -6), hr)), 2)])

\* The tail of calculatePsychrometricProperties with hr floored.
FinishAirState(l, pressure) ==
    Then(l, AssembleAirState(l, FloorHumidityRatio(l.hr), pressure))

ResolveAtPressure(inputType, value1, value2, pressure) ==
    Then(pressure, FinishAirState(ResolveByInputType(inputType, value1, value2, pressure), pressure))

calculatePsychrometricProperties(inputType, value1, value2, altitude) ==
    ResolveAtPressure(inputType, value1, value2, barometricPressure(altitude))

----------------------------------------------------------------------------
(* The older copy of the calculator, src/unnamed/part_001 *)

Part001_saturatedVaporPressure(temp) ==
    FMul(MathPow10(FSub(ANTOINE_A, FDiv(ANTOINE_B, FAdd(ANTOINE_C, temp)))),
         Dec(133322, -6))

Part001_barometricPressure(altitude) ==
    FMul(Dec(101325, -3),
         MathPow(FSub(Num(1), FDiv(FMul(Dec(65, -4), altitude), Dec(28815, -2))),
                 Dec(5255, -3)))

Part001_calculateHumidityRatio(dbt, wbt, pressure) ==
    HumidityRatioFromSaturation(dbt, wbt,
        RatioAtVaporPressure(Dec(621945, -6), Part001_saturatedVaporPressure(wbt), pressure))

Part001_calculateRelativeHumidity(dbt, humidityRatio, pressure) ==
    RelativeHumidityOf(VaporPressureAtRatio(Dec(621945, -6), humidityRatio, pressure),
                       Part001_saturatedVaporPressure(dbt))

Part001_calculateDewPoint(humidityRatio, pressure) ==
    FSub(FDiv(ANTOINE_B,
              FSub(ANTOINE_A,
                   MathLog10(FDiv(VaporPressureAtRatio(Dec(621945, -6), humidityRatio, pressure),
                                  Dec(133322, -6))))),
         ANTOINE_C)

\* 1.006 * dbt + humidityRatio * (2501 + 1.86 * dbt)
Part001_calculateEnthalpy(dbt, humidityRatio) ==
    FAdd(FMul(Dec(1006, -3), dbt),
         FMul(humidityRatio, FAdd(Num(2501), FMul(Dec(186, -2), dbt))))

Part001_calculateSpecificVolume(dbt, humidityRatio, pressure) ==
    FDiv(FMul(R_AIR, FAdd(dbt, Dec(27315, -2))),
         FMul(FSub(pressure,
                   VaporPressureAtRatio(Dec(621945, -6), humidityRatio, pressure)),
              Num(1000)))

Part001_calculateHumidityRatioFromDBTRH(dbt, rh, pressure) ==
    RatioAtVaporPressure(Dec(621945, -6),
                         FMul(FDiv(rh, Num(100)), Part001_saturatedVaporPressure(dbt)),
                         pressure)

Part001_calculateHumidityRatioFromDewPoint(dpt, pressure) ==
    RatioAtVaporPressure(Dec(621945, -6), Part001_saturatedVaporPressure(dpt), pressure)

Part001_calculateRelativeHumidityFromDewPoint(dbt, dpt) ==
    RelativeHumidityOf(Part001_saturatedVaporPressure(dpt), Part001_saturatedVaporPressure(dbt))

\* The rest of a pass of its calculateWetBulbFromDBTRH once difference is known:
\* wbt += difference * 10, kept within -50..dbt.
Part001_WetBulbFromDBTRHStep(st, dbt, difference) ==
    IF FLt(FAbs(difference), Dec(1, -2)) THEN LoopBreak(st)
    ELSE LoopContinue(st, ConstrainAboveFirst(FAdd(st.x, FMul(difference, Num(10))),
                                               Num(-50), dbt))

\* One pass of the for loop of its calculateWetBulbFromDBTRH.
Part001_WetBulbFromDBTRHPass(st, dbt, hr_from_rh, pressure) ==
    IF st.done THEN st
    ELSE Part001_WetBulbFromDBTRHStep(st, dbt,
             FSub(hr_from_rh, Part001_calculateHumidityRatio(dbt, st.x, pressure)))

RECURSIVE Part001_WetBulbFromDBTRHPasses(_, _, _, _, _)

Part001_WetBulbFromDBTRHPassesFrom(n, st, dbt, hr_from_rh, pressure) ==
    Then(st, Part001_WetBulbFromDBTRHPasses(n, st, dbt, hr_from_rh, pressure))

\* Up to n passes of that loop.
Part001_WetBulbFromDBTRHPasses(n, st, dbt, hr_from_rh, pressure) ==
    IF n = 0 THEN st
    ELSE IF n = 1 THEN Part001_WetBulbFromDBTRHPass(st, dbt, hr_from_rh, pressure)
    ELSE Part001_WetBulbFromDBTRHPassesFrom(n - (n \div 2),
             Part001_WetBulbFromDBTRHPasses(n \div 2, st, dbt, hr_from_rh, pressure),
             dbt, hr_from_rh, pressure)

Part001_calculateWetBulbFromDBTRH(dbt, rh, pressure) ==
    Part001_WetBulbFromDBTRHPasses(50, LoopStart(dbt), dbt,
        Part001_calculateHumidityRatioFromDBTRH(dbt, rh, pressure), pressure).x

\* The rest of a pass of its calculateWetBulbFromDBTDewPoint once difference is
\* known: wbt -= difference * 5, kept within dpt..dbt.
Part001_WetBulbFromDBTDewPointStep(st, dbt, dpt, difference) ==
    IF FLt(FAbs(difference), Dec(1, -2)) THEN LoopBreak(st)
    ELSE LoopContinue(st, ConstrainAboveFirst(FSub(st.x, FMul(difference, Num(5))),
                                               dpt, dbt))

\* One pass of the for loop of its calculateWetBulbFromDBTDewPoint.
Part001_WetBulbFromDBTDewPointPass(st, dbt, dpt, hr_from_dpt, pressure) ==
    IF st.done THEN st
    ELSE Part001_WetBulbFromDBTDewPointStep(st, dbt, dpt,
             FSub(hr_from_dpt, Part001_calculateHumidityRatio(dbt, st.x, pressure)))

RECURSIVE Part001_WetBulbFromDBTDewPointPasses(_, _, _, _, _, _)

Part001_WetBulbFromDBTDewPointPassesFrom(n, st, dbt, dpt, hr_from_dpt, pressure) ==
    Then(st, Part001_WetBulbFromDBTDewPointPasses(n, st, dbt, dpt, hr_from_dpt, pressure))

Part001_WetBulbFromDBTDewPointPasses(n, st, dbt, dpt, hr_from_dpt, pressure) ==
    IF n = 0 THEN st
    ELSE IF n = 1 THEN Part001_WetBulbFromDBTDewPointPass(st, dbt, dpt, hr_from_dpt, pressure)
    ELSE Part001_WetBulbFromDBTDewPointPassesFrom(n - (n \div 2),
             Part001_WetBulbFromDBTDewPointPasses(n \div 2, st, dbt, dpt, hr_from_dpt, pressure),
             dbt, dpt, hr_from_dpt, pressure)

Part001_calculateWetBulbFromDBTDewPoint(dbt, dpt, pressure) ==
    Part001_WetBulbFromDBTDewPointPasses(50, LoopStart(FDiv(FAdd(dbt, dpt), Num(2))), dbt, dpt,
        Part001_calculateHumidityRatioFromDewPoint(dpt, pressure), pressure).x

\* parseFloat(num.toFixed(decimals)).toString()
Part001_formatNumber(num, decimals) == ToFixedValue(num, decimals)

\* The locals of its cases 'dbt_wbt' and default once hr is known.
Part001_ResolveDbtWbtFrom(value1, value2, pressure, hr) ==
    [Unassigned EXCEPT !.dbt = value1, !.wbt = value2, !.hr = hr,
        !.rh = Part001_calculateRelativeHumidity(value1, hr, pressure),
        !.dpt = Part001_calculateDewPoint(hr, pressure)]

\* The locals of its case 'dbt_rh' once hr is known.
Part001_ResolveDbtRhFrom(value1, value2, pressure, hr) ==
    [Unassigned EXCEPT !.dbt = value1, !.rh = value2, !.hr = hr,
        !.wbt = Part001_calculateWetBulbFromDBTRH(value1, value2, pressure),
        !.dpt = Part001_calculateDewPoint(hr, pressure)]

\* Its case 'dbt_dpt'.
Part001_ResolveDbtDpt(value1, value2, pressure) ==
    [Unassigned EXCEPT !.dbt = value1, !.dpt = value2,
        !.rh = Part001_calculateRelativeHumidityFromDewPoint(value1, value2),
        !.hr = Part001_calculateHumidityRatioFromDewPoint(value2, pressure),
        !.wbt = Part001_calculateWetBulbFromDBTDewPoint(value1, value2, pressure)]

\* The locals of its case 'wbt_rh' once hr is known; the hr it assigns
\* first, from dbt = value1 + 5, is overwritten before it is read.
Part001_ResolveWbtRhFrom(value1, value2, pressure, dbt, hr) ==
    [Unassigned EXCEPT !.wbt = value1, !.rh = value2, !.dbt = dbt, !.hr = hr,
        !.dpt = Part001_calculateDewPoint(hr, pressure)]

\* hr = calculateHumidityRatio(dbt, wbt, pressure); dpt = calculateDewPoint(hr, pressure)
Part001_ResolveWbtRhAt(value1, value2, pressure, dbt) ==
    Part001_ResolveWbtRhFrom(value1, value2, pressure, dbt,
                             Part001_calculateHumidityRatio(dbt, value1, pressure))

Part001_ResolveWbtRh_Quarter(value1, value2, pressure) ==
    Part001_ResolveWbtRhAt(value1, value2, pressure,
                           FAdd(value1, FDiv(FSub(Num(100), value2), Num(4))))

\* Its case 'wbt_rh': dbt = value1 + (100 - rh) / 10
Part001_ResolveWbtRh(value1, value2, pressure) ==
    Part001_ResolveWbtRhAt(value1, value2, pressure,
                           FAdd(value1, FDiv(FSub(Num(100), value2), Num(10))))

\* Its switch.
Part001_ResolveByInputType(inputType, value1, value2, pressure) ==
    IF inputType = STR_dbt_wbt
    THEN Part001_ResolveDbtWbtFrom(value1, value2, pressure,
             Part001_calculateHumidityRatio(value1, value2, pressure))
    ELSE IF inputType = STR_dbt_rh
    THEN Part001_ResolveDbtRhFrom(value1, value2, pressure,
             Part001_calculateHumidityRatioFromDBTRH(value1, value2, pressure))
    ELSE IF inputType = STR_dbt_dpt THEN Part001_ResolveDbtDpt(value1, value2, pressure)
    ELSE IF inputType = STR_wbt_rh THEN Part001_ResolveWbtRh(value1, value2, pressure)
    ELSE Part001_ResolveDbtWbtFrom(value1, value2, pressure,
             Part001_calculateHumidityRatio(value1, value2, pressure))

\* Its tail: if (hr < 0) hr = 0, the remaining properties, the object returned.
Part001_AssembleAirState(l, hr, pressure) ==
    IF Undefined \in {l.dbt, l.wbt, l.rh, l.dpt, l.hr}
    THEN Thrown("TypeError")
    ELSE Returned(
        [dbt |-> Part001_formatNumber(l.dbt, 1),
         wbt |-> Part001_formatNumber(l.wbt, 1),
         rh |-> Part001_formatNumber(l.rh, 1),
         dpt |-> Part001_formatNumber(l.dpt, 1),
         humidityRatio |-> Part001_formatNumber(hr, 4),
         enthalpy |-> Part001_formatNumber(Part001_calculateEnthalpy(l.dbt, hr), 1),
         specificVolume |->
             Part001_formatNumber(Part001_calculateSpecificVolume(l.dbt, hr, pressure), 3),
         vaporPressure |-> Part001_formatNumber(FDiv(FMul(hr, pressure),
                                                     FAdd(Dec(621945, -6), hr)), 2)])

Part001_FinishAirState(l, pressure) ==
    Then(l, Part001_AssembleAirState(l, IF FLt(l.hr, Zero) THEN Zero ELSE l.hr, pressure))

Part001_ResolveAtPressure(inputType, value1, value2, pressure) ==
    Then(pressure,
         Part001_FinishAirState(Part001_ResolveByInputType(inputType, value1, value2, pressure),
                                pressure))

Part001_calculatePsychrometricProperties(inputType, value1, value2, altitude) ==
    Part001_ResolveAtPressure(inputType, value1, value2, Part001_barometricPressure(altitude))

----------------------------------------------------------------------------
(* JavaScript strings, as tuples of one-character strings *)

\* The value undefined where a string is expected (a property that is absent).
STR_undefined == <<"undefined">>
STR_empty == <<>>

IsSpace(c) == c \in {" ", "\t", "\n", "\r"}

RECURSIVE TrimStart(_)
TrimStart(s) ==
    IF s = <<>> THEN s
    ELSE IF IsSpace(s[1]) THEN TrimStart(Tail(s))
    ELSE s

RECURSIVE TrimEnd(_)
TrimEnd(s) ==
    IF s = <<>> THEN s
    ELSE IF IsSpace(s[Len(s)]) THEN TrimEnd(SubSeq(s, 1, Len(s) - 1))
    ELSE s

\* String.prototype.trim
Trim(s) == TrimEnd(TrimStart(s))

UpperCaseLetters ==
    <<"A", "B", "C", "D", "E", "F", "G", "H", "I", "J", "K", "L", "M",
      "N", "O", "P", "Q", "R", "S", "T", "U", "V", "W", "X", "Y", "Z">>
LowerCaseLetters ==
    <<"a", "b", "c", "d", "e", "f", "g", "h", "i", "j", "k", "l", "m",
      "n", "o", "p", "q", "r", "s", "t", "u", "v", "w", "x", "y", "z">>

ToLowerCaseChar(c) ==
    IF \E k \in 1..26 : UpperCaseLetters[k] = c
    THEN LowerCaseLetters[CHOOSE k \in 1..26 : UpperCaseLetters[k] = c]
    ELSE c

\* String.prototype.toLowerCase
RECURSIVE ToLowerCase(_)
ToLowerCase(s) ==
    IF s = <<>> THEN <<>>
    ELSE <<ToLowerCaseChar(s[1])>> \o ToLowerCase(Tail(s))

\* String.prototype.endsWith
EndsWith(s, suffix) ==
    /\ Len(s) >= Len(suffix)
    /\ SubSeq(s, Len(s) - Len(suffix) + 1, Len(s)) = suffix

\* The positions of the character sep in s.
SeparatorPositions(s, sep) == {i \in 1..Len(s) : s[i] = sep}

\* The k-th smallest of the numbers in P.
KthOf(P, k) == CHOOSE p \in P : Cardinality({q \in P : q < p}) = k - 1

\* The k-th piece of s, P being the positions of the separator.
PieceOf(s, P, k) ==
    SubSeq(s, IF k = 1 THEN 1 ELSE KthOf(P, k - 1) + 1,
              IF k = Cardinality(P) + 1 THEN Len(s) ELSE KthOf(P, k) - 1)

SplitAt(s, P) == [k \in 1..(Cardinality(P) + 1) |-> PieceOf(s, P, k)]

\* The pieces of s between the occurrences of the character sep:
\* String.prototype.split.
Split(s, sep) == SplitAt(s, SeparatorPositions(s, sep))

\* a || b for strings: the empty string and undefined are falsy.
Truthy(s) == s # STR_undefined /\ s # STR_empty
OrElse(a, b) == IF Truthy(a) THEN a ELSE b

DecimalDigits == <<"0", "1", "2", "3", "4", "5", "6", "7", "8", "9">>
IsDigit(c) == \E d \in 1..10 : DecimalDigits[d] = c
DigitValue(c) == (CHOOSE d \in 1..10 : DecimalDigits[d] = c) - 1

\* The number of digits of s from position k on.
RECURSIVE CountDigits(_, _)
CountDigits(s, k) ==
    IF k > Len(s) THEN 0
    ELSE IF IsDigit(s[k]) THEN 1 + CountDigits(s, k + 1)
    ELSE 0

\* The digits of s as <<mantissa, digits dropped>>: digits past the ninth
\* significant one are dropped.
RECURSIVE DigitsValue(_, _, _)
DigitsValue(s, m, dropped) ==
    IF s = <<>> THEN <<m, dropped>>
    ELSE IF m >= 100000000 THEN DigitsValue(Tail(s), m, dropped + 1)
    ELSE DigitsValue(Tail(s), 10 * m + DigitValue(s[1]), dropped)

\* The number with integer digits ip and fraction digits fp.
DecimalOf(ip, fp, md) == Norm(md[1], md[2] - Len(fp))
DecimalValue(ip, fp) == DecimalOf(ip, fp, DigitsValue(ip \o fp, 0, 0))

\* parseFloat of an unsigned decimal literal with n integer digits; a text
\* with no digit gives NaN.  Exponent parts do not occur in the model.
ParseDecimal(s, n) ==
    IF n < Len(s) /\ s[n + 1] = "."
    THEN (IF n + CountDigits(s, n + 2) = 0 THEN NaN
          ELSE DecimalValue(SubSeq(s, 1, n), SubSeq(s, n + 2, n + 1 + CountDigits(s, n + 2))))
    ELSE IF n = 0 THEN NaN
    ELSE DecimalValue(SubSeq(s, 1, n), <<>>)

STR_Infinity == <<"I", "n", "f", "i", "n", "i", "t", "y">>

ParseUnsigned(s) ==
    IF Len(s) >= 8 /\ SubSeq(s, 1, 8) = STR_Infinity THEN PosInf
    ELSE ParseDecimal(s, CountDigits(s, 1))

ParseSigned(s) ==
    IF s = <<>> THEN NaN
    ELSE IF s[1] = "-" THEN FNeg(ParseUnsigned(Tail(s)))
    ELSE IF s[1] = "+" THEN ParseUnsigned(Tail(s))
    ELSE ParseUnsigned(s)

\* parseFloat(s); parseFloat(undefined) is NaN.
ParseFloat(s) == IF s = STR_undefined THEN NaN ELSE ParseSigned(TrimStart(s))

----------------------------------------------------------------------------
(* Row objects: the properties of a row, as <<key, value>> pairs in the    *)
(* order they were set.                                                    *)

\* null where a row object is expected.
NullRow == << << <<"n", "u", "l", "l">> >> >>

HasProp(row, key) == \E k \in 1..Len(row) : row[k][1] = key

\* row[key]
GetProp(row, key) ==
    IF HasProp(row, key)
    THEN row[CHOOSE k \in 1..Len(row) : row[k][1] = key][2]
    ELSE STR_undefined

\* row[key] = value
SetProp(row, key, value) ==
    IF HasProp(row, key)
    THEN [row EXCEPT ![CHOOSE k \in 1..Len(row) : row[k][1] = key] = <<key, value>>]
    ELSE Append(row, <<key, value>>)

\* Object.keys(row)
RECURSIVE ObjectKeys(_)
ObjectKeys(row) ==
    IF row = <<>> THEN <<>> ELSE <<row[1][1]>> \o ObjectKeys(Tail(row))

STR_InputType == <<"I", "n", "p", "u", "t", "T", "y", "p", "e">>
STR_inputtype == <<"i", "n", "p", "u", "t", "t", "y", "p", "e">>
STR_Input_Type == <<"I", "n", "p", "u", "t", " ", "T", "y", "p", "e">>
STR_Value1 == <<"V", "a", "l", "u", "e", "1">>
STR_value1 == <<"v", "a", "l", "u", "e", "1">>
STR_Value_1 == <<"V", "a", "l", "u", "e", " ", "1">>
STR_Value2 == <<"V", "a", "l", "u", "e", "2">>
STR_value2 == <<"v", "a", "l", "u", "e", "2">>
STR_Value_2 == <<"V", "a", "l", "u", "e", " ", "2">>
STR_Altitude == <<"A", "l", "t", "i", "t", "u", "d", "e">>
STR_altitude == <<"a", "l", "t", "i", "t", "u", "d", "e">>
STR_Alt == <<"A", "l", "t">>

\* row.InputType || row.inputtype || row['Input Type']
RowInputType(row) ==
    OrElse(GetProp(row, STR_InputType),
           OrElse(GetProp(row, STR_inputtype), GetProp(row, STR_Input_Type)))

\* parseFloat(row.Value1 || row.value1 || row['Value 1'])
RowValue1(row) ==
    ParseFloat(OrElse(GetProp(row, STR_Value1),
                      OrElse(GetProp(row, STR_value1), GetProp(row, STR_Value_1))))

\* parseFloat(row.Value2 || row.value2 || row['Value 2'])
RowValue2(row) ==
    ParseFloat(OrElse(GetProp(row, STR_Value2),
                      OrElse(GetProp(row, STR_value2), GetProp(row, STR_Value_2))))

\* parseFloat(row.Altitude || row.altitude || row['Alt'])
RowAltitude(row) ==
    ParseFloat(OrElse(GetProp(row, STR_Altitude),
                      OrElse(GetProp(row, STR_altitude), GetProp(row, STR_Alt))))

----------------------------------------------------------------------------
(* CSVProcessor.parseCSV and parseCSVLine *)

\* The locals of parseCSVLine; i is counted from 1.
ParseCSVLineStart == [i |-> 1, current |-> <<>>, inQuotes |-> FALSE, result |-> <<>>]

ParseCSVLineStep_QuotesKept(line, st) ==
    IF st.i > Len(line) THEN st
    ELSE IF line[st.i] = "," /\ ~st.inQuotes
         THEN [st EXCEPT !.result = Append(@, st.current), !.current = <<>>, !.i = @ + 1]
    ELSE [st EXCEPT !.current = Append(@, line[st.i]), !.i = @ + 1]

\* One pass of the while loop of parseCSVLine, if the loop has not ended.
ParseCSVLineStep(line, st) ==
    IF st.i > Len(line) THEN st
    ELSE IF line[st.i] = "\""
         THEN (IF st.inQuotes /\ st.i < Len(line) /\ line[st.i + 1] = "\""
               THEN [st EXCEPT !.current = Append(@, "\""), !.i = @ + 2]
               ELSE [st EXCEPT !.inQuotes = ~@, !.i = @ + 1])
    ELSE IF line[st.i] = "," /\ ~st.inQuotes
         THEN [st EXCEPT !.result = Append(@, st.current), !.current = <<>>, !.i = @ + 1]
    ELSE [st EXCEPT !.current = Append(@, line[st.i]), !.i = @ + 1]

\* n passes of that loop.
RECURSIVE ParseCSVLineSteps(_, _, _)

ParseCSVLineStepsFrom(n, line, st) == Then(st, ParseCSVLineSteps(n, line, st))

ParseCSVLineSteps(n, line, st) ==
    IF n = 0 THEN st
    ELSE IF n = 1 THEN ParseCSVLineStep(line, st)
    ELSE ParseCSVLineStepsFrom(n - (n \div 2), line,
                               ParseCSVLineSteps(n \div 2, line, st))

\* result.push(current); return result
ParseCSVLineEnd(st) == Append(st.result, st.current)

\* Every pass moves i on, so Len(line) passes end the loop.
parseCSVLine(line) == ParseCSVLineEnd(ParseCSVLineSteps(Len(line), line, ParseCSVLineStart))

\* headers.forEach((header, index) => row[header.trim()] = values[index].trim())
RECURSIVE RowFromValues(_, _, _, _)
RowFromValues(headers, values, index, row) ==
    IF index > Len(headers) THEN row
    ELSE RowFromValues(headers, values, index + 1,
                       SetProp(row, Trim(headers[index]), Trim(values[index])))

\* A message of validateCSVData or parseCSV: the row number it names (0 if
\* it names none) and its text without the values quoted in it.
Message(row, text) == [row |-> row, text |-> text]

\* The for loop of parseCSV from line index i (counted from 0, the header
\* being line 0): the rows and the warnings collected.
RECURSIVE ParseCSVLines(_, _, _, _, _)

\* The body of the loop for a line that is not blank, values being its fields.
ParseCSVValues(lines, i, headers, values, data, warnings) ==
    IF Len(values) = Len(headers)
    THEN ParseCSVLines(lines, i + 1, headers,
                       Append(data, RowFromValues(headers, values, 1, <<>>)), warnings)
    ELSE IF Len(values) > 0
    THEN ParseCSVLines(lines, i + 1, headers, data,
                       Append(warnings, Message(i + 2, "Row skipped: column count")))
    ELSE ParseCSVLines(lines, i + 1, headers, data, warnings)

ParseCSVLines(lines, i, headers, data, warnings) ==
    IF i >= Len(lines) THEN [data |-> data, warnings |-> warnings]
    ELSE IF Trim(lines[i + 1]) = STR_empty
    THEN ParseCSVLines(lines, i + 1, headers, data, warnings)
    ELSE ParseCSVValues(lines, i, headers, parseCSVLine(lines[i + 1]), data, warnings)

ParseCSVSplit(lines, warnings) ==
    ParseCSVLines(lines, 1, parseCSVLine(lines[1]), <<>>, warnings)

\* parseCSV(csvContent) with this.warnings = warnings: the data returned and
\* the new this.warnings.
parseCSV(csvContent, warnings) == ParseCSVSplit(Split(Trim(csvContent), "\n"), warnings)

----------------------------------------------------------------------------
(* CSVProcessor.validateCSVData *)

RequiredColumns == <<STR_InputType, STR_Value1, STR_Value2, STR_Altitude>>

\* headers.some(h => h.toLowerCase() === col.toLowerCase())
HasColumn(headers, col) ==
    \E k \in 1..Len(headers) : ToLowerCase(headers[k]) = ToLowerCase(col)

IsRequiredColumn(h) ==
    \E k \in 1..Len(RequiredColumns) : ToLowerCase(h) = ToLowerCase(RequiredColumns[k])

\* <<item>> if cond holds: a push under a condition.
PushIf(cond, item) == IF cond THEN <<item>> ELSE <<>>

RECURSIVE MissingColumnErrors(_, _)
MissingColumnErrors(headers, k) ==
    IF k > Len(RequiredColumns) THEN <<>>
    ELSE PushIf(~HasColumn(headers, RequiredColumns[k]),
                Message(0, "Missing required column"))
         \o MissingColumnErrors(headers, k + 1)

ExtraColumnWarnings(headers) ==
    PushIf(\E k \in 1..Len(headers) : ~IsRequiredColumn(headers[k]),
           Message(0, "Extra columns found and will be ignored"))

\* The errors pushed for InputType.
InputTypeErrors(rowNum, inputType) ==
    IF ~Truthy(inputType) THEN <<Message(rowNum, "Missing InputType")>>
    ELSE IF inputType \notin {STR_dbt_wbt, STR_dbt_rh, STR_dbt_dpt, STR_wbt_rh}
    THEN <<Message(rowNum, "Invalid InputType")>>
    ELSE <<>>

InputTypeWarnings(rowNum, inputType) ==
    PushIf(/\ Truthy(inputType)
           /\ inputType \in {STR_dbt_wbt, STR_dbt_rh, STR_dbt_dpt, STR_wbt_rh}
           /\ inputType # ToLowerCase(inputType),
           Message(rowNum, "InputType should be lowercase"))

Value1Errors(rowNum, value1) ==
    IF IsNaN(value1) THEN <<Message(rowNum, "Invalid Value1 - must be a number")>>
    ELSE IF FLt(value1, Dec(-27315, -2))
    THEN <<Message(rowNum, "Value1 cannot be below absolute zero")>>
    ELSE <<>>

Value1Warnings(rowNum, value1) ==
    PushIf(/\ ~IsNaN(value1)
           /\ ~FLt(value1, Dec(-27315, -2))
           /\ FGt(FAbs(value1), Num(1000)),
           Message(rowNum, "Value1 is extremely high"))

Value2Errors(rowNum, value2) ==
    PushIf(IsNaN(value2), Message(rowNum, "Invalid Value2 - must be a number"))

AltitudeErrors(rowNum, altitude) ==
    IF IsNaN(altitude) THEN <<Message(rowNum, "Invalid Altitude - must be a number")>>
    ELSE IF FLt(altitude, Num(-500))
    THEN <<Message(rowNum, "Altitude cannot be negative (minimum: 0 meters)")>>
    ELSE IF FGt(altitude, Num(20000))
    THEN <<Message(rowNum, "Altitude exceeds maximum supported (20,000 meters)")>>
    ELSE <<>>

OutsideRange(x, lo, hi) == FLt(x, lo) \/ FGt(x, hi)

\* The switch of the input-specific validations.
KindErrors(rowNum, inputType, value1, value2) ==
    IF inputType = STR_dbt_wbt
    THEN PushIf(FGt(value2, FAdd(value1, Dec(5, -1))),
                Message(rowNum, "Wet bulb temperature cannot be greater than dry bulb"))
         \o PushIf(OutsideRange(value1, Num(-100), Num(100)),
                   Message(rowNum, "Dry bulb temperature must be between -100 and 100"))
         \o PushIf(OutsideRange(value2, Num(-100), Num(100)),
                   Message(rowNum, "Wet bulb temperature must be between -100 and 100"))
    ELSE IF inputType = STR_dbt_rh
    THEN PushIf(OutsideRange(value2, Zero, Num(100)),
                Message(rowNum, "Relative humidity must be between 0 and 100"))
         \o PushIf(OutsideRange(value1, Num(-100), Num(100)),
                   Message(rowNum, "Dry bulb temperature must be between -100 and 100"))
    ELSE IF inputType = STR_dbt_dpt
    THEN PushIf(FGt(value2, FAdd(value1, Dec(5, -1))),
                Message(rowNum, "Dew point temperature cannot be greater than dry bulb"))
         \o PushIf(OutsideRange(value1, Num(-100), Num(100)),
                   Message(rowNum, "Dry bulb temperature must be between -100 and 100"))
         \o PushIf(OutsideRange(value2, Num(-100), Num(100)),
                   Message(rowNum, "Dew point temperature must be between -100 and 100"))
    ELSE IF inputType = STR_wbt_rh
    THEN PushIf(OutsideRange(value2, Zero, Num(100)),
                Message(rowNum, "Relative humidity must be between 0 and 100"))
         \o PushIf(OutsideRange(value1, Num(-100), Num(100)),
                   Message(rowNum, "Wet bulb temperature must be between -100 and 100"))
    ELSE <<>>

KindWarnings(rowNum, inputType, value1) ==
    PushIf(inputType = STR_wbt_rh /\ FGt(value1, Num(50)),
           Message(rowNum, "Wet bulb temperature is very high for RH calculation"))

\* The errors one row adds, from the values read from it.
RowErrorsOf(rowNum, inputType, value1, value2, altitude) ==
    InputTypeErrors(rowNum, inputType)
    \o Value1Errors(rowNum, value1)
    \o Value2Errors(rowNum, value2)
    \o AltitudeErrors(rowNum, altitude)
    \o (IF ~IsNaN(value1) /\ ~IsNaN(value2) /\ Truthy(inputType)
        THEN KindErrors(rowNum, inputType, value1, value2)
        ELSE <<>>)

RowWarningsOf(rowNum, inputType, value1, value2) ==
    InputTypeWarnings(rowNum, inputType)
    \o Value1Warnings(rowNum, value1)
    \o (IF ~IsNaN(value1) /\ ~IsNaN(value2) /\ Truthy(inputType)
        THEN KindWarnings(rowNum, inputType, value1)
        ELSE <<>>)

\* data.forEach((row, index) => ...), from index on: the errors pushed.
RECURSIVE RowErrorsFrom(_, _)
RowErrorsFrom(data, index) ==
    IF index >= Len(data) THEN <<>>
    ELSE RowErrorsOf(index + 2, RowInputType(data[index + 1]), RowValue1(data[index + 1]),
                     RowValue2(data[index + 1]), RowAltitude(data[index + 1]))
         \o RowErrorsFrom(data, index + 1)

RECURSIVE RowWarningsFrom(_, _)
RowWarningsFrom(data, index) ==
    IF index >= Len(data) THEN <<>>
    ELSE RowWarningsOf(index + 2, RowInputType(data[index + 1]), RowValue1(data[index + 1]),
                       RowValue2(data[index + 1]))
         \o RowWarningsFrom(data, index + 1)

ValidationOf(errors, warnings) ==
    [isValid |-> Len(errors) = 0, errors |-> errors, warnings |-> warnings]

\* validateCSVData(data): what it returns; its warnings are the new
\* this.warnings.
validateCSVData(data) ==
    IF Len(data) = 0
    THEN ValidationOf(<<Message(0, "CSV file is empty or contains only headers")>>, <<>>)
    ELSE ValidationOf(MissingColumnErrors(ObjectKeys(data[1]), 1) \o RowErrorsFrom(data, 0),
                      ExtraColumnWarnings(ObjectKeys(data[1])) \o RowWarningsFrom(data, 0))

----------------------------------------------------------------------------
(* The rows, files and form inputs the model draws from *)

\* The longest batch passed to processData directly.
MaxRows == 2
\* The number of processData calls that may be pending at once.
MaxCalls == 1
\* How many processData calls may be under way at once where calls overlap.
MaxOverlap == 2
\* The number of files a FileReader may be reading at once.
MaxReads == 1

STR_csv == <<".", "c", "s", "v">>

\* A row object with the four canonical columns.
RowOf(inputType, value1, value2, altitude) ==
    << <<STR_InputType, inputType>>, <<STR_Value1, value1>>,
       <<STR_Value2, value2>>, <<STR_Altitude, altitude>> >>

\* Rows passed to processData directly: two valid rows, a row whose humidity
\* ratio comes out negative (dry bulb 50, wet bulb 10), and null.
RowPool ==
    << RowOf(STR_dbt_wbt, <<"2", "5">>, <<"2", "0">>, <<"0">>),
       RowOf(STR_dbt_rh, <<"2", "5">>, <<"5", "0">>, <<"0">>),
       RowOf(STR_dbt_wbt, <<"5", "0">>, <<"1", "0">>, <<"0">>),
       NullRow >>

Batches ==
    UNION {[1..n -> {RowPool[k] : k \in 1..Len(RowPool)}] : n \in 0..MaxRows}

\* s[1], sep, s[2], sep, ..., joined: Array.prototype.join.
RECURSIVE Join(_, _)
Join(parts, sep) ==
    IF parts = <<>> THEN <<>>
    ELSE IF Len(parts) = 1 THEN parts[1]
    ELSE parts[1] \o <<sep>> \o Join(Tail(parts), sep)

CsvText(lines) == Join(lines, "\n") \o <<"\n">>
CsvLine(cells) == Join(cells, ",")

HeaderLine == CsvLine(RequiredColumns)

\* Files the user may select: their names and contents.
FilePool ==
    << [name |-> <<"g", "o", "o", "d">> \o STR_csv,
        content |-> CsvText(<<HeaderLine,
                      CsvLine(<<STR_dbt_wbt, <<"2", "5">>, <<"2", "0">>, <<"0">> >>),
                      CsvLine(<<STR_dbt_rh, <<"2", "5">>, <<"5", "0">>, <<"0">> >>)>>)],
       [name |-> <<"l", "o", "w">> \o STR_csv,
        content |-> CsvText(<<HeaderLine,
                      CsvLine(<<STR_dbt_wbt, <<"2", "5">>, <<"2", "0">>,
                                <<"-", "1", "0", "0">> >>)>>)],
       [name |-> <<"h", "o", "t">> \o STR_csv,
        content |-> CsvText(<<HeaderLine,
                      CsvLine(<<STR_dbt_wbt, <<"1", "5", "0">>, <<"2", "0">>, <<"0">> >>)>>)],
       [name |-> <<"n", "o", "t", "e", "s", ".", "t", "x", "t">>,
        content |-> <<"h", "i">>] >>

Files == 1..Len(FilePool)

\* What the form fields of the calculator may hold.
ClickInputTypes == {STR_dbt_wbt, STR_dbt_rh, STR_dbt_dpt, STR_wbt_rh}
ClickValue1Texts == {<<"2", "5">>, <<"1", "5", "0">>}
ClickValue2Texts == {<<"2", "0">>, <<"a", "b", "c">>}
ClickAltitudeTexts == {<<"0">>, <<"-", "1", "0", "0">>, <<"1", "5", "0", "0", "0">>}

----------------------------------------------------------------------------
(* Calls of calculatePsychrometricProperties by the calling layers *)

CoreArgs(inputType, value1, value2, altitude) ==
    [inputType |-> inputType, value1 |-> value1, value2 |-> value2, altitude |-> altitude]

\* The arguments processData reads from a row.
RowCoreArgs(row) ==
    CoreArgs(RowInputType(row), RowValue1(row), RowValue2(row), RowAltitude(row))

FileRows(f) == parseCSV(FilePool[f].content, <<>>).data

\* The arguments the model ever passes to calculatePsychrometricProperties.
KnownCoreArgs ==
    {RowCoreArgs(RowPool[k]) : k \in {j \in 1..Len(RowPool) : RowPool[j] # NullRow}}
    \cup UNION {{RowCoreArgs(FileRows(f)[k]) : k \in 1..Len(FileRows(f))} : f \in Files}
    \cup {CoreArgs(t, ParseFloat(v1), ParseFloat(v2), ParseFloat(alt)) :
            t \in ClickInputTypes, v1 \in ClickValue1Texts,
            v2 \in ClickValue2Texts, alt \in ClickAltitudeTexts}

\* calculatePsychrometricProperties on each of those arguments.
CoreResults ==
    [a \in KnownCoreArgs |->
        calculatePsychrometricProperties(a.inputType, a.value1, a.value2, a.altitude)]


----------------------------------------------------------------------------
(* State *)

VARIABLES
    coreResults,    \* what calculatePsychrometricProperties returns, computed once
    calcIn,         \* the arguments of a call of calculatePsychrometricProperties
    calcOut,        \* what that call returned or threw
    calcDone,       \* whether the call has been made
    processing,     \* csvProcessor.processing
    results,        \* csvProcessor.results
    errors,         \* csvProcessor.errors
    warnings,       \* csvProcessor.warnings
    calls,          \* the processData calls made and not yet forgotten
    lastCoreCalls,  \* the arguments the last step passed to calculatePsychrometricProperties
    currentCSVData, \* let currentCSVData
    pendingReads,   \* the files a FileReader is reading
    fileName,       \* fileName.textContent while the file controls are shown
    csvMessage,     \* what showCSVError / showCSVSuccess last showed
    display,        \* what the Calculate click last showed
    solver,         \* a call of one of the iterative solvers: its arguments and loop state
    csv             \* a CSV text on its way through parseCSV, validateCSVData and processData

\* calculatePsychrometricProperties(a.inputType, a.value1, a.value2, a.altitude)
CallCore(a) == coreResults[a]

----------------------------------------------------------------------------
(* CSVProcessor.processData *)

\* if (i % 10 === 0) await ...
YieldStride == 10

\* (i + 1) / data.length * 100
ProgressValue_Remaining(i, n) == FMul(FDiv(Num(n - i), Num(n)), Num(100))

ProgressValue(i, n) == FMul(FDiv(Num(i + 1), Num(n)), Num(100))

\* A progress callback: whether one was passed, and the row index at which
\* it throws an Error (-1 if it never throws).
NoCallback == [present |-> FALSE, throwsAt |-> -1]
CallbackThrowingAt(i) == [present |-> TRUE, throwsAt |-> i]
Callbacks == {NoCallback} \cup {CallbackThrowingAt(i) : i \in -1..(MaxRows - 1)}

\* The part of a processData call that one run of its loop changes:
\* this.results, this.errors, the values passed to the progress callback,
\* the arguments passed to calculatePsychrometricProperties, and whether an
\* exception has left the loop body.
BatchState(res, errs, emitted) ==
    [results |-> res, errors |-> errs, emitted |-> emitted, coreCalls |-> {},
     uncaught |-> FALSE]

\* { rowNumber: rowNum, inputType, value1, value2, altitude, ...results }
ResultEntry(rowNum, a, r) ==
    [rowNumber |-> rowNum, inputType |-> a.inputType, value1 |-> a.value1,
     value2 |-> a.value2, altitude |-> a.altitude,
     dbt |-> r.dbt, wbt |-> r.wbt, rh |-> r.rh, dpt |-> r.dpt,
     humidityRatio |-> r.humidityRatio, enthalpy |-> r.enthalpy,
     specificVolume |-> r.specificVolume, vaporPressure |-> r.vaporPressure]

PushResult_Front(res, entry) == <<entry>> \o res

\* this.results.push(entry)
PushResult(res, entry) == Append(res, entry)

CatchRow_Rethrow(bs, rowNum, message) == [bs EXCEPT !.uncaught = TRUE]

\* catch (error) { this.errors.push({ row: rowNum, error: error.message }) }
CatchRow(bs, rowNum, message) ==
    [bs EXCEPT !.errors = Append(@, [row |-> rowNum, error |-> message])]

\* if (progressCallback) progressCallback((i + 1) / data.length * 100)
NotifyProgress(bs, cb, i, n) ==
    IF ~cb.present THEN bs
    ELSE IF cb.throwsAt = i
    THEN CatchRow([bs EXCEPT !.emitted = Append(@, ProgressValue(i, n))],
                  i + 2, "progress callback failed")
    ELSE [bs EXCEPT !.emitted = Append(@, ProgressValue(i, n))]

\* The try block once calculatePsychrometricProperties has returned or thrown r.
RowResolved(bs, cb, i, n, a, r) ==
    IF r.threw THEN CatchRow(bs, i + 2, r.error)
    ELSE NotifyProgress([bs EXCEPT !.results = PushResult(@, ResultEntry(i + 2, a, r.value))],
                        cb, i, n)

\* The try block once the arguments a have been read from the row.
RowWithArgs(bs, cb, i, n, a) ==
    RowResolved([bs EXCEPT !.coreCalls = @ \cup {a}], cb, i, n, a, CallCore(a))

\* One pass of the for loop, up to its await: reading a property of a row
\* that is null throws a TypeError.
ProcessRow(bs, data, cb, i) ==
    IF data[i + 1] = NullRow
    THEN CatchRow(bs, i + 2, "Cannot read properties of null")
    ELSE RowWithArgs(bs, cb, i, Len(data), RowCoreArgs(data[i + 1]))

\* The loop from row index i until it awaits, ends or is left by an
\* exception: the batch state, the index to go on from, and how it stopped.
RECURSIVE RunRows(_, _, _, _)

RunRowsAfter_EveryTwentieth(bs, data, cb, i) ==
    IF bs.uncaught THEN [bs |-> bs, i |-> i, stop |-> "rejected"]
    ELSE IF i % (2 * YieldStride) = 0 THEN [bs |-> bs, i |-> i + 1, stop |-> "suspended"]
    ELSE RunRows(bs, data, cb, i + 1)

\* if (i % 10 === 0) await new Promise(resolve => setTimeout(resolve, 0))
RunRowsAfter(bs, data, cb, i) ==
    IF bs.uncaught THEN [bs |-> bs, i |-> i, stop |-> "rejected"]
    ELSE IF i % YieldStride = 0 THEN [bs |-> bs, i |-> i + 1, stop |-> "suspended"]
    ELSE RunRows(bs, data, cb, i + 1)

RunRows(bs, data, cb, i) ==
    IF i >= Len(data) THEN [bs |-> bs, i |-> i, stop |-> "resolved"]
    ELSE RunRowsAfter(ProcessRow(bs, data, cb, i), data, cb, i)

----------------------------------------------------------------------------
(* Initial state *)

calcVars == <<coreResults, calcIn, calcOut, calcDone>>
processorVars == <<processing, results, errors, warnings>>
appVars == <<currentCSVData, pendingReads, fileName, csvMessage, display>>
solverVars == <<solver>>
csvVars == <<csv>>
vars == <<coreResults, calcIn, calcOut, calcDone, processing, results, errors, warnings, calls,
          lastCoreCalls, currentCSVData, pendingReads, fileName, csvMessage, display, solver,
          csv>>

\* The slots of processData calls the state holds.
Calls == DOMAIN calls

\* A slot for a processData call: its position, its arguments, the index of
\* the next row, the progress values passed to its callback so far, and the
\* array its promise resolved with.
IdleCall ==
    [pc |-> "idle", data |-> <<>>, cb |-> NoCallback, i |-> 0, emitted |-> <<>>,
     returned |-> <<>>]

NoData == [loaded |-> FALSE, rows |-> <<>>]
LoadedData(rows) == [loaded |-> TRUE, rows |-> rows]

NothingShown == [kind |-> "none", value |-> NoState]

\* The state after construction: new CSVProcessor(), currentCSVData = null.
ProcessorInit ==
    /\ processing = FALSE
    /\ results = <<>>
    /\ errors = <<>>
    /\ warnings = <<>>
    /\ calls = [c \in 1..MaxCalls |-> IdleCall]
    /\ lastCoreCalls = {}

AppInit ==
    /\ currentCSVData = NoData
    /\ pendingReads = {}
    /\ fileName = STR_empty
    /\ csvMessage = "none"
    /\ display = NothingShown

\* No solver call and no CSV text under way.
NoSolver == [kind |-> "none"]
NoCsv ==
    [stage |-> "none", text |-> <<>>, data |-> <<>>,
     validation |-> [isValid |-> FALSE, errors |-> <<>>, warnings |-> <<>>], output |-> <<>>]
SolverIdle == solver = NoSolver
CsvIdle == csv = NoCsv

CalcIdle ==
    /\ coreResults = CoreResults
    /\ calcIn = CoreArgs(STR_dbt_wbt, Zero, Zero, Zero)
    /\ calcOut = Returned(NoState)
    /\ calcDone = FALSE

----------------------------------------------------------------------------
(* Calls of calculatePsychrometricProperties on its own *)

STR_xyz == <<"x", "y", "z">>
STR_DBT_WBT == <<"D", "B", "T", "_", "W", "B", "T">>

ValidInputTypes == {STR_dbt_wbt, STR_dbt_rh, STR_dbt_dpt, STR_wbt_rh}

CalcInputTypes == ValidInputTypes \cup {STR_xyz, STR_DBT_WBT}
CalcValues1 == {Num(-100), Zero, Num(18), Num(25), Num(50), Num(100)}
CalcValues2 == {Num(-100), Zero, Num(10), Num(20), Num(65), Num(100)}
CalcAltitudes == {Num(-500), Zero, Num(10000), Num(50000)}

CalcInit ==
    /\ calcIn \in [inputType : CalcInputTypes, value1 : CalcValues1,
                   value2 : CalcValues2, altitude : CalcAltitudes]
    /\ calcOut = Returned(NoState)
    /\ calcDone = FALSE
    /\ coreResults = <<>>
    /\ ProcessorInit
    /\ AppInit
    /\ SolverIdle
    /\ CsvIdle

Calculate ==
    /\ ~calcDone
    /\ calcOut' = calculatePsychrometricProperties(calcIn.inputType, calcIn.value1,
                                                   calcIn.value2, calcIn.altitude)
    /\ calcDone' = TRUE
    /\ UNCHANGED <<coreResults, calcIn, processorVars, calls, lastCoreCalls, appVars,
                   solverVars, csvVars>>

CalcNext == Calculate

SpecCalc == CalcInit /\ [][CalcNext]_vars

----------------------------------------------------------------------------
(* Properties of calculatePsychrometricProperties *)

CalcKindIsInvalid == calcDone /\ calcIn.inputType \notin ValidInputTypes

CalcSolvedHR ==
    ResolveByInputType(calcIn.inputType, calcIn.value1, calcIn.value2,
                       barometricPressure(calcIn.altitude)).hr

\* C6: the humidityRatio of a returned AirState is never negative, for every
\* inputKind, value1, value2 and altitude.
C6_HumidityRatioNeverNegative ==
    (calcDone /\ ~calcOut.threw) => ~(calcOut.value.humidityRatio[1] < 0)

C6_Witness ==
    /\ calcDone
    /\ ~calcOut.threw
    /\ FLt(CalcSolvedHR, Dec(-1, -3))
    /\ calcOut.value.humidityRatio = Zero

\* C8: for the kinds that take RH as input (dbt_rh, wbt_rh), an RH input of
\* exactly 0 or exactly 100 never makes the call throw, and the rh returned
\* lies within [0, 100].
C8_RhBoundaryNeverThrows ==
    (/\ calcDone
     /\ calcIn.inputType \in {STR_dbt_rh, STR_wbt_rh}
     /\ calcIn.value2 \in {Zero, Num(100)}) =>
        /\ ~calcOut.threw
        /\ FLe(Zero, calcOut.value.rh)
        /\ FLe(calcOut.value.rh, Num(100))

C8_Witness ==
    /\ calcDone
    /\ calcIn.inputType = STR_wbt_rh
    /\ calcIn.value2 = Zero
    /\ ~calcOut.threw
    /\ calcOut.value.rh = Zero

\* The pressure and the five locals of the call made, before the tail.
CalcPressure == barometricPressure(calcIn.altitude)
CalcLocals ==
    ResolveByInputType(calcIn.inputType, calcIn.value1, calcIn.value2, CalcPressure)

\* x is a whole number of units of 10^-decimals.
HasDecimals(x, decimals) ==
    \/ x[1] = 0
    \/ x[2] + decimals >= 0
    \/ /\ -(x[2] + decimals) <= 8
       /\ x[1] % (10^(-(x[2] + decimals))) = 0

\* field is within half a unit of 10^-decimals of the finite, non-zero raw.
WithinHalfUnit(field, raw, decimals) ==
    IF raw[2] + decimals >= 0 THEN field = raw
    ELSE IF -(raw[2] + decimals) > 8 THEN field = Zero
    ELSE IF field = Zero THEN 2 * FAbs(raw)[1] <= 10^(-(raw[2] + decimals))
    ELSE /\ field[2] - raw[2] \in {0, 1}
         /\ 2 * FAbs(<<field[1] * 10^(field[2] - raw[2]) - raw[1], 0>>)[1]
               <= 10^(-(raw[2] + decimals))

\* field is raw rounded to the given number of decimals; NaN and the
\* infinities are kept as they are.
RoundedTo(field, raw, decimals) ==
    IF ~IsFinite(raw) \/ raw[1] = 0 THEN field = raw
    ELSE /\ IsFinite(field)
         /\ HasDecimals(field, decimals)
         /\ WithinHalfUnit(field, raw, decimals)

FieldsRoundedAt(out, l, hr, pressure) ==
    /\ RoundedTo(out.dbt, l.dbt, 1)
    /\ RoundedTo(out.wbt, l.wbt, 1)
    /\ RoundedTo(out.rh, l.rh, 1)
    /\ RoundedTo(out.dpt, l.dpt, 1)
    /\ RoundedTo(out.humidityRatio, hr, 4)
    /\ RoundedTo(out.enthalpy, calculateEnthalpy(l.dbt, hr), 1)
    /\ RoundedTo(out.specificVolume, calculateSpecificVolume(l.dbt, hr, pressure), 3)
    /\ RoundedTo(out.vaporPressure,
                 FDiv(FMul(hr, pressure), FAdd(Dec(621945, -6), hr)), 2)

FieldsRounded(out, l, pressure) ==
    FieldsRoundedAt(out, l, FloorHumidityRatio(l.hr), pressure)

\* C14: each field of the returned AirState equals the computed value
\* rounded to its fixed precision: dbt, wbt, rh, dpt and enthalpy to 1
\* decimal, humidityRatio to 4, specificVolume to 3, vaporPressure to 2.
C14_FieldsRounded ==
    (calcDone /\ ~calcOut.threw) => FieldsRounded(calcOut.value, CalcLocals, CalcPressure)

C14_Witness ==
    /\ calcDone
    /\ ~calcOut.threw
    /\ calcIn.inputType = STR_dbt_rh
    /\ calcIn.value1 = Num(25) /\ calcIn.value2 = Num(65) /\ calcIn.altitude = Zero
    /\ calcOut.value.humidityRatio # CalcSolvedHR
    /\ FGt(calcOut.value.humidityRatio, Zero)
    /\ HasDecimals(calcOut.value.humidityRatio, 4)
    /\ ~HasDecimals(calcOut.value.humidityRatio, 3)

UniformTailAt(out, dbt, hr, pressure) ==
    /\ ~FLt(hr, Zero)
    /\ out.enthalpy = formatNumber(calculateEnthalpy(dbt, hr), 1)
    /\ out.specificVolume = formatNumber(calculateSpecificVolume(dbt, hr, pressure), 3)
    /\ out.vaporPressure =
          formatNumber(FDiv(FMul(hr, pressure), FAdd(Dec(621945, -6), hr)), 2)

UniformTail(out, l, pressure) ==
    UniformTailAt(out, l.dbt, FloorHumidityRatio(l.hr), pressure)

\* C15: for every input kind, enthalpy, specificVolume and vaporPressure of
\* the returned AirState are the same three formulas of the final dry-bulb
\* temperature, the floored humidity ratio and the one pressure derived from
\* the altitude.
C15_UniformTail ==
    (calcDone /\ ~calcOut.threw) => UniformTail(calcOut.value, CalcLocals, CalcPressure)

C15_Witness ==
    /\ calcDone
    /\ ~calcOut.threw
    /\ calcIn.inputType = STR_wbt_rh
    /\ FLt(CalcSolvedHR, Zero)
    /\ calcOut.value.vaporPressure = Zero
    /\ IsFinite(calcOut.value.enthalpy)

\* C17 as stated: for kind wbt_rh with RH in [0, 100], the dry-bulb
\* temperature solveDBTFromWBTRH returns is never below the wet-bulb input.
C17_SolvedDbtNotBelowWbt ==
    (/\ calcDone
     /\ calcIn.inputType = STR_wbt_rh
     /\ FLe(Zero, calcIn.value2)
     /\ FLe(calcIn.value2, Num(100))) =>
        ~FLt(CalcLocals.dbt, calcIn.value1)

\* rh and dpt of the AirState out are what the converters give for the
\* humidity ratio hr at this dry-bulb temperature and pressure.
ConvertersAgree(out, dbt, hr, pressure) ==
    /\ out.rh = formatNumber(calculateRelativeHumidity(dbt, hr, pressure), 1)
    /\ out.dpt = formatNumber(calculateDewPoint(hr, pressure), 1)

\* The same, once the locals l of a call whose solved humidity ratio is
\* negative are known: the humidity ratio returned is the floored one.
FlooredFieldsConsistent(out, l, pressure) ==
    FLt(l.hr, Zero) => ConvertersAgree(out, l.dbt, FloorHumidityRatio(l.hr), pressure)

\* C23 as stated: in the dbt_wbt path and the default path, when the
\* humidity ratio computed from dry-bulb and wet-bulb is negative and is
\* floored to 0, the rh and dpt returned are the ones the converters give
\* for the returned (floored) humidity ratio at the same pressure.
C23_FlooredFieldsConsistent ==
    (/\ calcDone
     /\ ~calcOut.threw
     /\ calcIn.inputType \notin {STR_dbt_rh, STR_dbt_dpt, STR_wbt_rh}) =>
        FlooredFieldsConsistent(calcOut.value, CalcLocals, CalcPressure)

\* The two fields of the AirState out that a kind takes as its inputs.
MeasuredFields(inputType, out) ==
    IF inputType = STR_dbt_rh THEN <<out.dbt, out.rh>>
    ELSE IF inputType = STR_dbt_dpt THEN <<out.dbt, out.dpt>>
    ELSE IF inputType = STR_wbt_rh THEN <<out.wbt, out.rh>>
    ELSE <<out.dbt, out.wbt>>

\* C24: the two measured inputs are returned unchanged up to output
\* rounding: dbt_wbt returns dbt = value1 and wbt = value2, dbt_rh returns
\* dbt = value1 and rh = value2, dbt_dpt returns dbt = value1 and
\* dpt = value2, wbt_rh returns wbt = value1 and rh = value2.
C24_InputsReturned ==
    (calcDone /\ ~calcOut.threw /\ calcIn.inputType \in ValidInputTypes) =>
        /\ RoundedTo(MeasuredFields(calcIn.inputType, calcOut.value)[1], calcIn.value1, 1)
        /\ RoundedTo(MeasuredFields(calcIn.inputType, calcOut.value)[2], calcIn.value2, 1)

C24_Witness ==
    /\ calcDone
    /\ ~calcOut.threw
    /\ calcIn.inputType = STR_wbt_rh
    /\ calcIn.value1 = Num(18) /\ calcIn.value2 = Num(65)
    /\ calcOut.value.wbt = Num(18)
    /\ calcOut.value.rh = Num(65)
    /\ FGt(calcOut.value.dbt, Num(18))

----------------------------------------------------------------------------
(* The batch runner: calls of csvProcessor.processData *)

Settled(call) == call.pc \in {"resolved", "rejected"}
NoCallPending == \A c \in Calls : calls[c].pc # "suspended"

\* The first slot that holds no pending call; the records of settled calls
\* are dropped when a new call is made.
FreeSlot(c) ==
    /\ calls[c].pc # "suspended"
    /\ \A d \in Calls : d < c => calls[d].pc = "suspended"

\* The state a run seg of the loop of call c leaves, the call having been
\* made with data and cb.
AfterRun(c, data, cb, running, seg) ==
    /\ results' = seg.bs.results
    /\ errors' = seg.bs.errors
    /\ processing' = IF seg.stop = "resolved" THEN FALSE ELSE running
    /\ lastCoreCalls' = seg.bs.coreCalls
    /\ calls' = [d \in Calls |->
                    IF d = c
                    THEN [pc |-> seg.stop, data |-> data, cb |-> cb, i |-> seg.i,
                          emitted |-> seg.bs.emitted,
                          returned |-> IF seg.stop = "resolved" THEN seg.bs.results
                                       ELSE <<>>]
                    ELSE IF Settled(calls[d]) THEN IdleCall
                    ELSE calls[d]]

\* csvProcessor.processData(data, cb), up to its first await or its return.
ProcessData(c, data, cb) ==
    /\ FreeSlot(c)
    /\ AfterRun(c, data, cb, TRUE, RunRows(BatchState(<<>>, <<>>, <<>>), data, cb, 0))
    /\ UNCHANGED warnings

\* The timer of an await fires: the call goes on to its next await or its
\* return.
ProcessDataResume(c) ==
    /\ calls[c].pc = "suspended"
    /\ AfterRun(c, calls[c].data, calls[c].cb, processing,
                RunRows(BatchState(results, errors, calls[c].emitted),
                        calls[c].data, calls[c].cb, calls[c].i))
    /\ UNCHANGED warnings

\* One call at a time, each on a batch and with a callback of its own.
BatchCall ==
    /\ NoCallPending
    /\ \E c \in Calls, data \in Batches, cb \in Callbacks : ProcessData(c, data, cb)
    /\ UNCHANGED <<calcVars, solverVars, csvVars, appVars>>

BatchResume ==
    /\ \E c \in Calls : ProcessDataResume(c)
    /\ UNCHANGED <<calcVars, solverVars, csvVars, appVars>>

Init == CalcIdle /\ ProcessorInit /\ AppInit /\ SolverIdle /\ CsvIdle

Next == BatchCall \/ BatchResume

Spec == Init /\ [][Next]_vars

----------------------------------------------------------------------------
(* The batch runner on batches longer than the yield stride *)

\* The longest of these batches.
MaxStrideRows == 21

\* Batches of one row repeated, of every length up to MaxStrideRows.
StrideBatches ==
    UNION {[1..n -> {RowPool[k]}] : n \in 0..MaxStrideRows, k \in 1..Len(RowPool)}

\* No callback, one that never throws, and one that throws at a row after
\* which the loop awaits.
StrideCallbacks == {NoCallback, CallbackThrowingAt(-1), CallbackThrowingAt(YieldStride)}

StrideCall ==
    /\ NoCallPending
    /\ \E c \in Calls, data \in StrideBatches, cb \in StrideCallbacks : ProcessData(c, data, cb)
    /\ UNCHANGED <<calcVars, solverVars, csvVars, appVars>>

StrideResume ==
    /\ \E c \in Calls : ProcessDataResume(c)
    /\ UNCHANGED <<calcVars, solverVars, csvVars, appVars>>

StrideNext == StrideCall \/ StrideResume

SpecStride == Init /\ [][StrideNext]_vars

----------------------------------------------------------------------------
(* Overlapping use of one CSVProcessor: processData called, or reset()
   called, while an earlier processData call waits at its await *)

\* The data of overlapping calls: batches long enough for a call to wait at
\* its await, of rows that tell one call's entries from another's.
OverlapBatches == {b \in Batches : Len(b) = MaxRows /\ \A k \in 1..Len(b) : b[k] \in {RowPool[1], RowPool[2]}}

\* csvProcessor.processData(data, cb), whatever the earlier calls are doing.
OverlapCall ==
    /\ \E c \in Calls, data \in OverlapBatches, cb \in Callbacks :
        ProcessData(c, data, cb)
    /\ UNCHANGED <<calcVars, solverVars, csvVars, appVars>>

\* The timer of an await of one of the calls fires.
OverlapResume ==
    /\ \E c \in Calls : ProcessDataResume(c)
    /\ UNCHANGED <<calcVars, solverVars, csvVars, appVars>>

\* csvProcessor.reset(); a call waiting at its await is left waiting.
reset ==
    /\ processing' = FALSE
    /\ results' = <<>>
    /\ errors' = <<>>
    /\ warnings' = <<>>
    /\ lastCoreCalls' = {}
    /\ UNCHANGED <<calcVars, solverVars, csvVars, appVars, calls>>

OverlapInit ==
    /\ CalcIdle /\ AppInit /\ SolverIdle /\ CsvIdle
    /\ processing = FALSE
    /\ results = <<>>
    /\ errors = <<>>
    /\ warnings = <<>>
    /\ calls = [c \in 1..MaxOverlap |-> IdleCall]
    /\ lastCoreCalls = {}

OverlapNext == OverlapCall \/ OverlapResume \/ reset

SpecOverlap == OverlapInit /\ [][OverlapNext]_vars

----------------------------------------------------------------------------
(* The page: the Calculate button and the CSV upload *)

ErrorShown == [kind |-> "error", value |-> NoState]
ResultsShown(r) ==
    IF r.threw THEN ErrorShown ELSE [kind |-> "results", value |-> r.value]

\* The switch of the click handler: isValid.
ClickKindValid(inputType, value1, value2) ==
    IF inputType = STR_dbt_wbt
    THEN /\ ~FGt(value2, value1)
         /\ ~OutsideRange(value1, Num(-100), Num(100))
         /\ ~OutsideRange(value2, Num(-100), Num(100))
    ELSE IF inputType = STR_dbt_rh
    THEN /\ ~OutsideRange(value2, Zero, Num(100))
         /\ ~OutsideRange(value1, Num(-100), Num(100))
    ELSE IF inputType = STR_dbt_dpt
    THEN /\ ~FGt(value2, value1)
         /\ ~OutsideRange(value1, Num(-100), Num(100))
         /\ ~OutsideRange(value2, Num(-100), Num(100))
    ELSE IF inputType = STR_wbt_rh
    THEN /\ ~OutsideRange(value2, Zero, Num(100))
         /\ ~OutsideRange(value1, Num(-100), Num(100))
    ELSE TRUE

\* Whether the click handler goes on to calculatePsychrometricProperties.
ClickAccepts(a) ==
    /\ ~(IsNaN(a.value1) \/ IsNaN(a.value2) \/ IsNaN(a.altitude))
    /\ ClickKindValid(a.inputType, a.value1, a.value2)
    /\ ~OutsideRange(a.altitude, Zero, Num(10000))

\* The click handler of calculateBtn, the fields having been read as a.
ClickWith(a) ==
    IF ClickAccepts(a)
    THEN /\ display' = ResultsShown(CallCore(a))
         /\ lastCoreCalls' = {a}
    ELSE /\ display' = ErrorShown
         /\ lastCoreCalls' = {}

CalculateClick ==
    /\ \E t \in ClickInputTypes, v1 \in ClickValue1Texts,
          v2 \in ClickValue2Texts, alt \in ClickAltitudeTexts :
            ClickWith(CoreArgs(t, ParseFloat(v1), ParseFloat(v2), ParseFloat(alt)))
    /\ UNCHANGED <<calcVars, solverVars, csvVars, processorVars, calls, currentCSVData,
                   pendingReads, fileName, csvMessage>>

\* handleFileSelect(file): a file that is not named *.csv is refused, any
\* other is handed to a FileReader.
HandleFileSelect ==
    /\ \E f \in Files :
        IF ~EndsWith(FilePool[f].name, STR_csv)
        THEN /\ csvMessage' = "error"
             /\ UNCHANGED <<pendingReads, fileName>>
        ELSE /\ f \notin pendingReads
             /\ Cardinality(pendingReads) < MaxReads
             /\ fileName' = FilePool[f].name
             /\ pendingReads' = pendingReads \cup {f}
             /\ UNCHANGED csvMessage
    /\ lastCoreCalls' = {}
    /\ UNCHANGED <<calcVars, solverVars, csvVars, processorVars, calls, currentCSVData, display>>

\* reader.onload once parseCSV has returned parsed and validateCSVData has
\* returned validation.
LoadedWith(parsed, validation) ==
    /\ warnings' = validation.warnings
    /\ IF validation.isValid
       THEN /\ currentCSVData' = LoadedData(parsed.data)
            /\ csvMessage' = "success"
       ELSE /\ csvMessage' = "error"
            /\ UNCHANGED currentCSVData

LoadedParsed(parsed) == LoadedWith(parsed, validateCSVData(parsed.data))

\* reader.onload for a file that has been read.
ReaderOnLoad ==
    /\ \E f \in pendingReads :
        /\ pendingReads' = pendingReads \ {f}
        /\ LoadedParsed(parseCSV(FilePool[f].content, warnings))
    /\ lastCoreCalls' = {}
    /\ UNCHANGED <<calcVars, solverVars, csvVars, processing, results, errors, calls, fileName,
                   display>>

\* The callback processCSVFile passes: it sets the progress bar and never throws.
ProgressBarCallback == CallbackThrowingAt(-1)

\* A click on Process: processCSVFile, up to the first await of processData.
ProcessClick ==
    /\ IF ~currentCSVData.loaded
       THEN /\ csvMessage' = "error"
            /\ lastCoreCalls' = {}
            /\ UNCHANGED <<processorVars, calls>>
       ELSE /\ \E c \in Calls : ProcessData(c, currentCSVData.rows, ProgressBarCallback)
            /\ UNCHANGED csvMessage
    /\ UNCHANGED <<calcVars, solverVars, csvVars, currentCSVData, pendingReads, fileName,
                   display>>

\* The timer of an await of processData fires.
ProcessResume ==
    /\ \E c \in Calls : ProcessDataResume(c)
    /\ UNCHANGED <<calcVars, solverVars, csvVars, appVars>>

\* A click on Remove file: resetCSVUpload, which calls csvProcessor.reset().
RemoveFileClick ==
    /\ currentCSVData' = NoData
    /\ fileName' = STR_empty
    /\ processing' = FALSE
    /\ results' = <<>>
    /\ errors' = <<>>
    /\ warnings' = <<>>
    /\ lastCoreCalls' = {}
    /\ UNCHANGED <<calcVars, solverVars, csvVars, calls, pendingReads, csvMessage, display>>

AppNext ==
    \/ CalculateClick
    \/ HandleFileSelect
    \/ ReaderOnLoad
    \/ ProcessClick
    \/ ProcessResume
    \/ RemoveFileClick

SpecApp == Init /\ [][AppNext]_vars

----------------------------------------------------------------------------
(* CSVProcessor.generateOutputCSV and generateSampleCSV *)

\* The decimal digits of the natural number n.
RECURSIVE DigitsOf(_)
DigitsOf(n) ==
    IF n < 10 THEN <<DecimalDigits[n + 1]>>
    ELSE Append(DigitsOf(n \div 10), DecimalDigits[(n % 10) + 1])

\* `${n}` for an integer n.
IntegerToString(n) == IF n < 0 THEN <<"-">> \o DigitsOf(-n) ELSE DigitsOf(n)

\* The mantissa m without its trailing zeros, and the number of zeros dropped.
RECURSIVE StripZeros(_, _)
StripZeros(m, z) ==
    IF m # 0 /\ m % 10 = 0 THEN StripZeros(m \div 10, z + 1) ELSE <<m, z>>

Zeros(n) == [k \in 1..n |-> "0"]

STR_NaN == <<"N", "a", "N">>
STR_undefined_text == <<"u", "n", "d", "e", "f", "i", "n", "e", "d">>

\* Number::toString of the positive number 0.s * 10^n, s being its digits.
PositiveToString(s, n) ==
    IF Len(s) <= n /\ n <= 21 THEN s \o Zeros(n - Len(s))
    ELSE IF 0 < n /\ n <= 21 THEN SubSeq(s, 1, n) \o <<".">> \o SubSeq(s, n + 1, Len(s))
    ELSE IF -6 < n /\ n <= 0 THEN <<"0", ".">> \o Zeros(-n) \o s
    ELSE (IF Len(s) = 1 THEN s ELSE <<s[1], ".">> \o Tail(s))
         \o <<"e">> \o (IF n - 1 < 0 THEN <<"-">> \o DigitsOf(1 - n)
                        ELSE <<"+">> \o DigitsOf(n - 1))

DigitsToString(s, zerosAndExponent) == PositiveToString(s, Len(s) + zerosAndExponent)

MantissaToString(mz, e) == DigitsToString(DigitsOf(mz[1]), mz[2] + e)

\* `${x}` for a number x.
NumberToString(x) ==
    IF x = NaN THEN STR_NaN
    ELSE IF x = Undefined THEN STR_undefined_text
    ELSE IF x = PosInf THEN STR_Infinity
    ELSE IF x = NegInf THEN <<"-">> \o STR_Infinity
    ELSE IF x[1] = 0 THEN <<"0">>
    ELSE IF x[1] < 0 THEN <<"-">> \o MantissaToString(StripZeros(-x[1], 0), x[2])
    ELSE MantissaToString(StripZeros(x[1], 0), x[2])

\* `${s}` for a string s or undefined.
StringToString(s) == IF s = STR_undefined THEN STR_undefined_text ELSE s

\* const headers = [...] of generateOutputCSV
OutputHeaders ==
    <<<<"R", "o", "w", "N", "u", "m", "b", "e", "r">>, <<"I", "n", "p", "u", "t", "T", "y", "p", "e">>, <<"V", "a", "l", "u", "e", "1">>, <<"V", "a", "l", "u", "e", "2">>,
      <<"A", "l", "t", "i", "t", "u", "d", "e">>, <<"D", "B", "T">>, <<"W", "B", "T">>, <<"R", "H">>, <<"D", "P", "T">>,
      <<"H", "u", "m", "i", "d", "i", "t", "y", "R", "a", "t", "i", "o">>, <<"E", "n", "t", "h", "a", "l", "p", "y">>, <<"S", "p", "e", "c", "i", "f", "i", "c", "V", "o", "l", "u", "m", "e">>,
      <<"V", "a", "p", "o", "r", "P", "r", "e", "s", "s", "u", "r", "e">>>>

\* The values of a result in header order, each as `${value}` makes it.
OutputValues(result) ==
    <<IntegerToString(result.rowNumber), StringToString(result.inputType),
      NumberToString(result.value1), NumberToString(result.value2),
      NumberToString(result.altitude), NumberToString(result.dbt),
      NumberToString(result.wbt), NumberToString(result.rh), NumberToString(result.dpt),
      NumberToString(result.humidityRatio), NumberToString(result.enthalpy),
      NumberToString(result.specificVolume), NumberToString(result.vaporPressure)>>

\* `"${value}"`
Quoted(value) == <<"\"">> \o value \o <<"\"">>

QuotedLine(values) == Join([k \in 1..Len(values) |-> Quoted(values[k])], ",")

\* One line of the output per result.
OutputLine(result) == QuotedLine(OutputValues(result))

OutputLines(res) == [k \in 1..Len(res) |-> OutputLine(res[k])]

generateOutputCSV(res) ==
    IF Len(res) = 0 THEN STR_empty
    ELSE Join(<<Join(OutputHeaders, ",")>> \o OutputLines(res), "\n")

\* const sampleData = [...] of generateSampleCSV
SampleData ==
    << RowOf(STR_dbt_wbt, <<"2", "5", ".", "0">>, <<"2", "0", ".", "0">>, <<"0">>),
       RowOf(STR_dbt_rh, <<"3", "0", ".", "0">>, <<"6", "5", ".", "0">>, <<"5", "0", "0">>),
       RowOf(STR_dbt_dpt, <<"2", "2", ".", "0">>, <<"1", "5", ".", "0">>, <<"1", "0", "0">>),
       RowOf(STR_wbt_rh, <<"1", "8", ".", "0">>, <<"7", "0", ".", "0">>, <<"0">>),
       RowOf(STR_dbt_wbt, <<"3", "5", ".", "0">>, <<"2", "8", ".", "0">>, <<"1", "0", "0", "0">>) >>

SampleLine(row) ==
    QuotedLine([k \in 1..Len(RequiredColumns) |-> GetProp(row, RequiredColumns[k])])

generateSampleCSV ==
    Join(<<Join(RequiredColumns, ",")>>
         \o [k \in 1..Len(SampleData) |-> SampleLine(SampleData[k])], "\n")

\* The "Supported CSV Format" block of the README.
ReadmeCSV ==
    CsvText(<<HeaderLine,
              CsvLine(<<STR_dbt_wbt, <<"2", "5", ".", "0">>, <<"2", "0", ".", "0">>, <<"0">>>>),
              CsvLine(<<STR_dbt_rh, <<"3", "0", ".", "0">>, <<"6", "5", ".", "0">>, <<"5", "0", "0">>>>),
              CsvLine(<<STR_dbt_dpt, <<"2", "2", ".", "0">>, <<"1", "5", ".", "0">>, <<"1", "0", "0">>>>),
              CsvLine(<<STR_wbt_rh, <<"1", "8", ".", "0">>, <<"7", "0", ".", "0">>, <<"0">>>>)>>)

----------------------------------------------------------------------------
(* A CSV text taken through parseCSV, validateCSVData, processData and     *)
(* generateOutputCSV, as the page does it for an uploaded file.            *)

STR_INPUTTYPE == <<"I", "N", "P", "U", "T", "T", "Y", "P", "E">>
STR_VALUE1 == <<"V", "A", "L", "U", "E", "1">>
STR_VALUE2 == <<"V", "A", "L", "U", "E", "2">>
STR_ALTITUDE == <<"A", "L", "T", "I", "T", "U", "D", "E">>

\* The spellings of each column that differ from the canonical one by letter
\* case only: canonical, all lower case, all upper case.
InputTypeSpellings == {STR_InputType, STR_inputtype, STR_INPUTTYPE}
Value1Spellings == {STR_Value1, STR_value1, STR_VALUE1}
Value2Spellings == {STR_Value2, STR_value2, STR_VALUE2}
AltitudeSpellings == {STR_Altitude, STR_altitude, STR_ALTITUDE}

\* One valid data line under a header line.
SpelledText(h1, h2, h3, h4) ==
    CsvText(<<CsvLine(<<h1, h2, h3, h4>>),
              CsvLine(<<STR_dbt_wbt, <<"2", "5">>, <<"2", "0">>, <<"0">>>>)>>)

SpelledTexts ==
    {SpelledText(h1, h2, h3, h4) :
        h1 \in InputTypeSpellings, h2 \in Value1Spellings,
        h3 \in Value2Spellings, h4 \in AltitudeSpellings}

CanonicalText == SpelledText(STR_InputType, STR_Value1, STR_Value2, STR_Altitude)

\* A data line whose InputType cell holds a quotation mark, written doubled
\* inside a quoted cell.
STR_dbt_quote_wbt == <<"d", "b", "t", "\"", "w", "b", "t">>
QuoteText ==
    CsvText(<<HeaderLine,
              CsvLine(<<Quoted(<<"d", "b", "t", "\"", "\"", "w", "b", "t">>), <<"2", "5">>, <<"2", "0">>, <<"0">>>>)>>)

\* A file with a blank line, and one with a line of three fields, before
\* its data line.
BlankLineText ==
    CsvText(<<HeaderLine, STR_empty,
              CsvLine(<<STR_dbt_wbt, <<"2", "5">>, <<"2", "0">>, <<"0">>>>)>>)

MalformedLineText ==
    CsvText(<<HeaderLine,
              CsvLine(<<STR_dbt_wbt, <<"2", "5">>, <<"2", "0">>>>),
              CsvLine(<<STR_dbt_wbt, <<"2", "5">>, <<"2", "0">>, <<"0">>>>)>>)

CsvTexts ==
    SpelledTexts \cup {generateSampleCSV, ReadmeCSV, QuoteText, BlankLineText, MalformedLineText}

TextRows(text) == parseCSV(text, <<>>).data

\* The arguments processData passes to calculatePsychrometricProperties for
\* those texts, and what it returns for them.
CsvCoreArgs ==
    UNION {{RowCoreArgs(TextRows(text)[k]) : k \in 1..Len(TextRows(text))} : text \in CsvTexts}

CsvCoreResults ==
    [a \in CsvCoreArgs |->
        calculatePsychrometricProperties(a.inputType, a.value1, a.value2, a.altitude)]

NoValidation == [isValid |-> FALSE, errors |-> <<>>, warnings |-> <<>>]

CsvAt(stage, text, data, validation, output) ==
    [stage |-> stage, text |-> text, data |-> data, validation |-> validation,
     output |-> output]

CsvInit ==
    /\ coreResults = CsvCoreResults
    /\ calcIn = CoreArgs(STR_dbt_wbt, Zero, Zero, Zero)
    /\ calcOut = Returned(NoState)
    /\ calcDone = FALSE
    /\ ProcessorInit
    /\ AppInit
    /\ SolverIdle
    /\ CsvIdle

\* const data = csvProcessor.parseCSV(csvContent)
CsvParsed(text, parsed) ==
    /\ csv' = CsvAt("parsed", text, parsed.data, NoValidation, STR_empty)
    /\ warnings' = parsed.warnings

CsvParse ==
    /\ csv.stage = "none"
    /\ \E text \in CsvTexts : CsvParsed(text, parseCSV(text, warnings))
    /\ lastCoreCalls' = {}
    /\ UNCHANGED <<calcVars, solverVars, appVars, processing, results, errors, calls>>

\* const validation = csvProcessor.validateCSVData(data)
CsvValidated(validation) ==
    /\ csv' = [csv EXCEPT !.stage = "validated", !.validation = validation]
    /\ warnings' = validation.warnings

CsvValidate ==
    /\ csv.stage = "parsed"
    /\ CsvValidated(validateCSVData(csv.data))
    /\ lastCoreCalls' = {}
    /\ UNCHANGED <<calcVars, solverVars, appVars, processing, results, errors, calls>>

\* csvProcessor.processData(data, callback), up to its first await.
CsvProcess ==
    /\ csv.stage = "validated"
    /\ \E c \in Calls, cb \in {NoCallback, ProgressBarCallback} :
          ProcessData(c, csv.data, cb)
    /\ csv' = [csv EXCEPT !.stage = "processing"]
    /\ UNCHANGED <<calcVars, solverVars, appVars>>

CsvResume ==
    /\ csv.stage = "processing"
    /\ \E c \in Calls : ProcessDataResume(c)
    /\ UNCHANGED <<calcVars, solverVars, appVars, csv>>

\* csvProcessor.generateOutputCSV(csvProcessor.results), once processData
\* has resolved.
CsvExport ==
    /\ csv.stage = "processing"
    /\ \E c \in Calls : calls[c].pc = "resolved"
    /\ csv' = [csv EXCEPT !.stage = "exported", !.output = generateOutputCSV(results)]
    /\ lastCoreCalls' = {}
    /\ UNCHANGED <<calcVars, solverVars, appVars, processorVars, calls>>

CsvNext ==
    \/ CsvParse
    \/ CsvValidate
    \/ CsvProcess
    \/ CsvResume
    \/ CsvExport

SpecCsv == CsvInit /\ [][CsvNext]_vars

----------------------------------------------------------------------------
(* Properties of processData *)

\* Whether the try block of row i throws: the row is null, or the progress
\* callback throws when it is called for that row.
RowThrows(call, i) ==
    \/ call.data[i + 1] = NullRow
    \/ call.cb.present /\ call.cb.throwsAt = i

HasError(rowNum) == \E k \in 1..Len(errors) : errors[k].row = rowNum
HasResult(rowNum) == \E k \in 1..Len(results) : results[k].rowNumber = rowNum

\* C1: if resolving row i throws, an error entry carrying that row's number
\* i + 2 is appended to errors and every later row is still resolved (it
\* has an entry in results or in errors); the promise of processData is
\* never rejected, whatever the batch.
C1_ErrorIsolation ==
    \A c \in Calls :
        /\ calls[c].pc # "rejected"
        /\ calls[c].pc \in {"suspended", "resolved"} =>
            \A i \in 0..(calls[c].i - 1) :
                /\ RowThrows(calls[c], i) => HasError(i + 2)
                /\ HasResult(i + 2) \/ HasError(i + 2)
        /\ calls[c].pc = "resolved" => calls[c].i = Len(calls[c].data)

C1_Witness ==
    \E c \in Calls :
        /\ calls[c].pc = "resolved"
        /\ Len(calls[c].data) = 2
        /\ calls[c].data[1] = NullRow
        /\ HasError(2) /\ ~HasResult(2)
        /\ HasResult(3) /\ ~HasError(3)

\* C2 as stated: for any non-empty batch, by the time processData resolves a
\* progress value has been passed to the callback after every row, failed
\* rows included, so the last value passed is 100.
C2_ProgressReachesCompletion ==
    \A c \in Calls :
        (calls[c].pc = "resolved" /\ calls[c].cb.present /\ Len(calls[c].data) > 0) =>
            /\ Len(calls[c].emitted) = Len(calls[c].data)
            /\ calls[c].emitted[Len(calls[c].emitted)] = Num(100)

\* C3: within one processData call the values passed to the progress
\* callback never decrease and never exceed 100, whichever rows succeed or fail.
C3_ProgressMonotone ==
    \A c \in Calls :
        /\ \A k \in 1..Len(calls[c].emitted) : FLe(calls[c].emitted[k], Num(100))
        /\ \A k \in 1..(Len(calls[c].emitted) - 1) :
               FLe(calls[c].emitted[k], calls[c].emitted[k + 1])

C3_Witness ==
    \E c \in Calls :
        /\ calls[c].pc = "resolved"
        /\ calls[c].cb.throwsAt = 0
        /\ HasError(2)
        /\ calls[c].emitted = <<Num(50), Num(100)>>

\* Whether calculatePsychrometricProperties on the arguments a takes the
\* logarithm of a vapour pressure that is not positive, or (for dbt_wbt)
\* divides by a pressure difference that is not positive.
HitsNumericDomainError(a) ==
    \/ /\ a.inputType # STR_dbt_dpt
       /\ ~FGt(DewPointLogArgument(
                   ResolveByInputType(a.inputType, a.value1, a.value2,
                                      barometricPressure(a.altitude)).hr,
                   barometricPressure(a.altitude)),
               Zero)
    \/ /\ a.inputType = STR_dbt_wbt
       /\ ~FGt(FSub(barometricPressure(a.altitude), saturatedVaporPressure(a.value2)), Zero)

\* C5 as stated: a row whose computation hits a numeric domain error is
\* reported by processData as an entry in errors and is not added to results.
C5_DomainErrorRowIsAnError ==
    \A c \in Calls :
        calls[c].pc = "resolved" =>
            \A i \in 0..(Len(calls[c].data) - 1) :
                (/\ calls[c].data[i + 1] # NullRow
                 /\ HitsNumericDomainError(RowCoreArgs(calls[c].data[i + 1]))) =>
                    HasError(i + 2) /\ ~HasResult(i + 2)

\* C9: results lists the successful rows in input order (strictly increasing
\* rowNumber) and errors lists the failed rows in input order (strictly
\* increasing row); the array processData resolves with is that results.
C9_OrderPreserved ==
    /\ \A k \in 1..(Len(results) - 1) : results[k].rowNumber < results[k + 1].rowNumber
    /\ \A k \in 1..(Len(errors) - 1) : errors[k].row < errors[k + 1].row
    /\ \A c \in Calls : calls[c].pc = "resolved" => calls[c].returned = results

C9_Witness ==
    \E c \in Calls :
        /\ calls[c].pc = "resolved"
        /\ Len(results) = 2
        /\ results[1].rowNumber = 2 /\ results[2].rowNumber = 3
        /\ Len(errors) = 1

----------------------------------------------------------------------------
(* Properties of the calling layers *)

Within(x, lo, hi) == FLe(lo, x) /\ FLe(x, hi)

\* The ranges of the specification: altitude 0..10000 m, temperatures
\* -100..100 C, relative humidity 0..100 %.
InSpecifiedRanges(a) ==
    /\ Within(a.altitude, Zero, Num(10000))
    /\ Within(a.value1, Num(-100), Num(100))
    /\ IF a.inputType \in {STR_dbt_rh, STR_wbt_rh}
       THEN Within(a.value2, Zero, Num(100))
       ELSE Within(a.value2, Num(-100), Num(100))

\* C10 as stated: every call of calculatePsychrometricProperties made by the
\* Calculate click handler, or by processData on rows that validateCSVData
\* accepted, has altitude within 0..10000, temperature inputs within
\* -100..100 and RH inputs within 0..100.
C10_CallersEnforceRanges ==
    \A a \in lastCoreCalls : InSpecifiedRanges(a)


\* The number of entries of results and of errors that carry row number n.
ResultsAt(n) == Cardinality({k \in 1..Len(results) : results[k].rowNumber = n})
ErrorsAt(n) == Cardinality({k \in 1..Len(errors) : errors[k].row = n})

\* C26 as stated: when processData resolves, every input row index i has
\* exactly one entry with row number i + 2 across results and errors
\* together, so the two counts add up to the number of input rows, also
\* when the progress callback itself throws.
C26_RowsPartitioned ==
    \A c \in Calls :
        calls[c].pc = "resolved" =>
            /\ \A i \in 0..(Len(calls[c].data) - 1) : ResultsAt(i + 2) + ErrorsAt(i + 2) = 1
            /\ Len(results) + Len(errors) = Len(calls[c].data)

----------------------------------------------------------------------------
(* Properties of the CSV pipeline *)

\* The values processData read from the row of a result.
ReadValues(entry) == CoreArgs(entry.inputType, entry.value1, entry.value2, entry.altitude)

CsvValidationDone == csv.stage \in {"validated", "processing", "exported"}
CsvProcessingBegun == csv.stage \in {"processing", "exported"}

\* C11 as stated: a data set whose headers equal InputType, Value1, Value2,
\* Altitude up to letter case, with valid cells, is accepted by
\* validateCSVData, and processData reads from it the same inputType, value1,
\* value2 and altitude as from the canonical spelling.
C11_HeadersCaseInsensitive ==
    csv.text \in SpelledTexts =>
        /\ CsvValidationDone => csv.validation.isValid
        /\ CsvProcessingBegun =>
              \A k \in 1..Len(results) :
                  ReadValues(results[k]) = RowCoreArgs(TextRows(CanonicalText)[1])

\* The lines of the text generateOutputCSV returned.
OutputTextLines == Split(csv.output, "\n")

TemplateRows(text) == IF text = generateSampleCSV THEN Len(SampleData) ELSE 4

CsvCallResolved == \E c \in Calls : calls[c].pc = "resolved"

\* C13: the text generateSampleCSV returns, and the README's format block,
\* pass parseCSV and validateCSVData with isValid true and no errors, give
\* one data row per sample line, and processData on the rows puts every row
\* in results and none in errors.
C13_SampleTemplateAccepted ==
    csv.text \in {generateSampleCSV, ReadmeCSV} =>
        /\ csv.stage # "none" => Len(csv.data) = TemplateRows(csv.text)
        /\ CsvValidationDone =>
              /\ csv.validation.isValid
              /\ csv.validation.errors = <<>>
        /\ (CsvProcessingBegun /\ CsvCallResolved) =>
              /\ Len(results) = TemplateRows(csv.text)
              /\ errors = <<>>
              /\ \A k \in 1..Len(results) : results[k].rowNumber = k + 1

C13_Witness ==
    /\ csv.text = generateSampleCSV
    /\ csv.stage = "exported"
    /\ csv.validation.isValid
    /\ Len(results) = 5
    /\ errors = <<>>

----------------------------------------------------------------------------
(* Properties of the yield stride of processData *)

\* The row index a step of call c starts from: where its await left it, or
\* 0 for a new call.
StepStart(c) == IF calls[c].pc = "suspended" THEN calls[c].i ELSE 0

\* What one step (a call up to its first await, or the run between two
\* awaits, or the run to the return) does to call c.
StrideStep(c) ==
    /\ calls'[c].pc \in {"suspended", "resolved"}
    /\ calls'[c].i - StepStart(c) <= YieldStride
    /\ calls'[c].pc = "suspended" =>
          /\ calls'[c].i <= Len(calls'[c].data)
          /\ calls'[c].i = (IF StepStart(c) = 0 THEN 1 ELSE StepStart(c) + YieldStride)
    /\ calls'[c].pc = "resolved" => calls'[c].i = Len(calls'[c].data)

\* C16: processData awaits the zero-delay timer after the first row and
\* after every tenth row thereafter, so no more than 10 rows are resolved
\* between two consecutive yields, for any batch length.
C16_YieldStride ==
    [][\A c \in Calls : calls'[c] # calls[c] => StrideStep(c)]_vars

C16_Witness ==
    \E c \in Calls :
        /\ calls[c].pc = "suspended"
        /\ Len(calls[c].data) = 2 * YieldStride + 1
        /\ calls[c].i = YieldStride + 1
        /\ Len(results) = YieldStride + 1

----------------------------------------------------------------------------
(* The iterative solvers, one loop pass at a time *)

\* const maxIterations of the two wet-bulb solvers and of solveDBTFromWBTRH.
WetBulbMaxIterations == 50
SolveDBTMaxIterations == 100

\* The arguments the solvers are called with: temperatures, RH values, dew
\* points, and the altitudes the pressure is derived from (the last one
\* gives a pressure that is NaN).
SolverTemperatures == {Num(-100), Num(-60), Num(25), Num(50), Num(80), Num(100)}
SolverRHs == {Zero, Num(50), Num(100)}
SolverDewPoints == {Num(-100), Num(10), Num(20), Num(90)}
SolverAltitudes == {Zero, Num(10000), Num(42000), Num(50000)}

\* calculateWetBulbFromDBTRH is entered: wbt = dbt, hr_from_rh is computed.
WetBulbFromDBTRHEntered(dbt, rh, pressure) ==
    solver' = [kind |-> "calculateWetBulbFromDBTRH", dbt |-> dbt, rh |-> rh,
               pressure |-> pressure,
               target |-> calculateHumidityRatioFromDBTRH(dbt, rh, pressure),
               st |-> LoopStart(dbt), budget |-> WetBulbMaxIterations,
               returned |-> FALSE, value |-> Undefined]

\* calculateWetBulbFromDBTDewPoint is entered: hr_from_dpt is computed,
\* wbt = (dbt + dpt) / 2.
WetBulbFromDBTDewPointEntered(dbt, dpt, pressure) ==
    solver' = [kind |-> "calculateWetBulbFromDBTDewPoint", dbt |-> dbt, dpt |-> dpt,
               pressure |-> pressure,
               target |-> calculateHumidityRatioFromDewPoint(dpt, pressure),
               st |-> LoopStart(FDiv(FAdd(dbt, dpt), Num(2))),
               budget |-> WetBulbMaxIterations,
               returned |-> FALSE, value |-> Undefined]

\* solveDBTFromWBTRH is entered: dbt = wbt + (100 - rh) / 4, targetHR is
\* computed.
SolveDBTEntered(wbt, rh, pressure) ==
    solver' = [kind |-> "solveDBTFromWBTRH", wbt |-> wbt, rh |-> rh,
               pressure |-> pressure,
               target |-> SolveDBTTarget(wbt, rh, pressure),
               st |-> LoopStart(FAdd(wbt, FDiv(FSub(Num(100), rh), Num(4)))),
               budget |-> SolveDBTMaxIterations,
               returned |-> FALSE, value |-> Undefined]

SolverOthersUnchanged ==
    UNCHANGED <<calcVars, processorVars, calls, lastCoreCalls, appVars, csvVars>>

WetBulbFromDBTRHEnter ==
    /\ solver = NoSolver
    /\ \E dbt \in SolverTemperatures, rh \in SolverRHs, altitude \in SolverAltitudes :
          WetBulbFromDBTRHEntered(dbt, rh, barometricPressure(altitude))
    /\ SolverOthersUnchanged

WetBulbFromDBTDewPointEnter ==
    /\ solver = NoSolver
    /\ \E dbt \in SolverTemperatures, dpt \in SolverDewPoints, altitude \in SolverAltitudes :
          WetBulbFromDBTDewPointEntered(dbt, dpt, barometricPressure(altitude))
    /\ SolverOthersUnchanged

SolveDBTEnter ==
    /\ solver = NoSolver
    /\ \E wbt \in SolverTemperatures, rh \in SolverRHs, altitude \in SolverAltitudes :
          SolveDBTEntered(wbt, rh, barometricPressure(altitude))
    /\ SolverOthersUnchanged

SolverInLoop_NoBudget ==
    /\ solver # NoSolver
    /\ ~solver.returned
    /\ ~solver.st.done

\* The for loop goes on: i < maxIterations and no break yet.
SolverInLoop ==
    /\ solver # NoSolver
    /\ ~solver.returned
    /\ ~solver.st.done
    /\ solver.st.passes < solver.budget

\* One pass of the loop of calculateWetBulbFromDBTRH.
WetBulbFromDBTRHIterate ==
    /\ SolverInLoop
    /\ solver.kind = "calculateWetBulbFromDBTRH"
    /\ solver' = [solver EXCEPT
                    !.st = WetBulbFromDBTRHPass(@, solver.dbt, solver.target, solver.pressure)]
    /\ SolverOthersUnchanged

\* One pass of the loop of calculateWetBulbFromDBTDewPoint.
WetBulbFromDBTDewPointIterate ==
    /\ SolverInLoop
    /\ solver.kind = "calculateWetBulbFromDBTDewPoint"
    /\ solver' = [solver EXCEPT
                    !.st = WetBulbFromDBTDewPointPass(@, solver.dbt, solver.dpt,
                                                      solver.target, solver.pressure)]
    /\ SolverOthersUnchanged

\* One pass of the loop of solveDBTFromWBTRH.
SolveDBTIterate ==
    /\ SolverInLoop
    /\ solver.kind = "solveDBTFromWBTRH"
    /\ solver' = [solver EXCEPT
                    !.st = SolveDBTPass(@, solver.wbt, solver.target, solver.pressure)]
    /\ SolverOthersUnchanged

\* The value returned once the loop is left: the iterate, which
\* solveDBTFromWBTRH first verifies.
SolverValue ==
    IF solver.kind = "solveDBTFromWBTRH"
    THEN SolveDBTFinish(solver.wbt, solver.rh, solver.pressure, solver.target, solver.st.x)
    ELSE solver.st.x

\* The loop is left, by its break or by its budget, and the solver returns.
SolverReturn ==
    /\ solver # NoSolver
    /\ ~solver.returned
    /\ solver.st.done \/ solver.st.passes = solver.budget
    /\ solver' = [solver EXCEPT !.returned = TRUE, !.value = SolverValue]
    /\ SolverOthersUnchanged

SolveNext ==
    \/ WetBulbFromDBTRHEnter
    \/ WetBulbFromDBTDewPointEnter
    \/ SolveDBTEnter
    \/ WetBulbFromDBTRHIterate
    \/ WetBulbFromDBTDewPointIterate
    \/ SolveDBTIterate
    \/ SolverReturn

SpecSolve == Init /\ [][SolveNext]_vars

\* The steps of a solver that has been called.
SolverRuns ==
    \/ WetBulbFromDBTRHIterate
    \/ WetBulbFromDBTDewPointIterate
    \/ SolveDBTIterate
    \/ SolverReturn

\* A solver has been called and has not returned: one of its steps is
\* enabled, and each step changes solver.
SolverRunning == solver # NoSolver /\ ~solver.returned

\* A solver is a synchronous function: once called it runs on, pass after
\* pass, until it returns. This is weak fairness of SolverRuns, with
\* ENABLED <<SolverRuns>>_vars written as the guard SolverRunning.
SolverFairness == []<>(~SolverRunning) \/ []<><<SolverRuns>>_vars

SpecSolveFair == SpecSolve /\ SolverFairness

----------------------------------------------------------------------------
(* Properties of the iterative solvers *)

\* The step is a loop pass of the named solver that updates the iterate
\* (it does not leave through the break).
UpdatingPass(kind) ==
    /\ solver # NoSolver
    /\ solver.kind = kind
    /\ solver'.st.passes = solver.st.passes + 1
    /\ ~solver'.st.done

\* target - f(wbt), for the iterate the pass starts from.
SolverDifference ==
    FSub(solver.target, calculateHumidityRatio(solver.dbt, solver.st.x, solver.pressure))

\* What the claim asks of an updating pass of calculateWetBulbFromDBTDewPoint
\* with the difference d: an update that no bound has clamped is by +5 d,
\* and the iterate does not decrease when d is positive.
DewPointUpdateFollows(d) ==
    /\ (FLt(solver.dpt, solver'.st.x) /\ FLt(solver'.st.x, solver.dbt)) =>
          solver'.st.x = FAdd(solver.st.x, FMul(d, Num(5)))
    /\ FGt(d, Zero) => ~FLt(solver'.st.x, solver.st.x)

\* C18 as stated: in calculateWetBulbFromDBTDewPoint each unclamped update
\* moves the iterate by +5 (target - f(wbt)), the sign of the DBT+RH
\* solver's update, so that the wet-bulb iterate does not decrease when the
\* target humidity ratio is above the current estimate.
C18_DewPointUpdateDirection ==
    [][UpdatingPass("calculateWetBulbFromDBTDewPoint") =>
          DewPointUpdateFollows(SolverDifference)]_vars

\* An update step has been made: a pass that did not break.
SolverUpdated == solver.st.passes > (IF solver.st.done THEN 1 ELSE 0)

SolverBudget ==
    IF solver.kind = "solveDBTFromWBTRH" THEN SolveDBTMaxIterations ELSE WetBulbMaxIterations

SolverCalled == solver # NoSolver
SolverReturned == solver # NoSolver /\ solver.returned

\* No solver makes more loop passes than its budget, and what it returns is
\* a number (NaN and the infinities included), never an exception or nothing.
SolverWithinBudget ==
    SolverCalled =>
        /\ solver.st.passes <= SolverBudget
        /\ solver.returned => solver.value # Undefined

\* C21: each of the three iterative solvers terminates for every input after
\* at most its iteration budget (50 loop passes for the two wet-bulb
\* solvers, 100 for solveDBTFromWBTRH) and returns a value without raising,
\* also when it has not converged.
C21_SolversTerminate ==
    /\ []SolverWithinBudget
    /\ SolverCalled ~> SolverReturned

C21_Witness ==
    /\ SolverReturned
    /\ solver.kind = "solveDBTFromWBTRH"
    /\ ~solver.st.done
    /\ solver.st.passes = SolveDBTMaxIterations
    /\ IsFinite(solver.value)

\* The value the fallback policy asks for, from the humidity ratio of the
\* last iterate: relative error above 0.05 gives wbt + (100 - rh) / 3.
FallbackPolicyValue(finalHR) ==
    IF FGt(FDiv(FAbs(FSub(finalHR, solver.target)), solver.target), Dec(5, -2))
    THEN FAdd(solver.wbt, FDiv(FSub(Num(100), solver.rh), Num(3)))
    ELSE solver.st.x

SolveDBTReturned ==
    /\ SolverReturned
    /\ solver.kind = "solveDBTFromWBTRH"
    /\ FLe(Zero, solver.rh)
    /\ FLe(solver.rh, Num(100))

\* C22: for every wbt and every RH in [0, 100], RH = 0 included,
\* solveDBTFromWBTRH returns wbt + (100 - RH) / 3 exactly when the relative
\* error |finalHR - targetHR| / targetHR of the last iterate exceeds 0.05,
\* and the last Newton iterate otherwise.
C22_FallbackPolicy ==
    SolveDBTReturned =>
        solver.value =
            FallbackPolicyValue(calculateHumidityRatio(solver.st.x, solver.wbt, solver.pressure))

C22_Witness ==
    /\ SolveDBTReturned
    /\ solver.rh = Zero
    /\ solver.target = Zero
    /\ solver.value = FAdd(solver.wbt, FDiv(Num(100), Num(3)))
    /\ solver.value # solver.st.x

\* The lines of a file, and the 1-based numbers of its lines after the
\* header that are not blank and have as many fields as the header
\* (Kept) or another number of fields (Skipped).
FileLines(text) == Split(text, "\n")

IsDataLine(lines, n) ==
    /\ Trim(lines[n]) # STR_empty
    /\ Len(parseCSVLine(lines[n])) = Len(parseCSVLine(lines[1]))

IsMalformedLine(lines, n) ==
    /\ Trim(lines[n]) # STR_empty
    /\ Len(parseCSVLine(lines[n])) # Len(parseCSVLine(lines[1]))

KeptLineNumbers(lines) ==
    SelectSeq([n \in 1..(Len(lines) - 1) |-> n + 1], LAMBDA n : IsDataLine(lines, n))

SkippedLineNumbers(lines) ==
    SelectSeq([n \in 1..(Len(lines) - 1) |-> n + 1], LAMBDA n : IsMalformedLine(lines, n))

\* The entries of processData carry the numbers kept, in order; the
\* warnings of parseCSV carry the numbers skipped.
RowNumbersAre(kept) ==
    /\ \A k \in 1..Len(results) : k <= Len(kept) /\ results[k].rowNumber = kept[k]
    /\ \A k \in 1..Len(errors) : \E j \in 1..Len(kept) : errors[k].row = kept[j]

WarningRowsAre(skipped) ==
    /\ Len(warnings) = Len(skipped)
    /\ \A k \in 1..Len(warnings) : warnings[k].row = skipped[k]

\* C25 as stated: for a CSV text passed through parseCSV and then
\* processData, the rowNumber of each result and the row of each error are
\* the 1-based line number of that row in the file (the header being line
\* 1), also when blank or malformed lines that parseCSV skips precede it,
\* and the skipped-row warnings of parseCSV name the line skipped.
C25_RowNumbersAreFileLines ==
    /\ csv.stage = "parsed" => WarningRowsAre(SkippedLineNumbers(FileLines(csv.text)))
    /\ CsvProcessingBegun => RowNumbersAre(KeptLineNumbers(FileLines(csv.text)))

----------------------------------------------------------------------------
(* Properties of overlapping use of one CSVProcessor *)

\* results and errors hold what call c itself has put there so far: every
\* entry is of one of the rows c has been through, a result carries the values
\* c read from that row, and every row c has been through has an entry.
HoldsOwnEntries(c) ==
    /\ \A k \in 1..Len(results) :
        /\ results[k].rowNumber - 2 < calls[c].i
        /\ calls[c].data[results[k].rowNumber - 1] # NullRow
        /\ ReadValues(results[k]) = RowCoreArgs(calls[c].data[results[k].rowNumber - 1])
    /\ \A k \in 1..Len(errors) : errors[k].row - 2 < calls[c].i
    /\ \A n \in 0..(calls[c].i - 1) : ResultsAt(n + 2) + ErrorsAt(n + 2) >= 1

CallGoesOn(c) == calls[c].pc = "suspended" /\ calls'[c] # calls[c]
CallRunning(c) == calls[c].pc = "suspended"

\* C27 as stated: on one CSVProcessor, a processData call that goes on after
\* its await never adds its entries to results and errors that a later
\* processData call or a reset() has cleared in the meantime, and the
\* processing flag is false only when no processData call is still running.
C27_NoLeakBetweenRuns ==
    /\ [][\A c \in Calls : CallGoesOn(c) => HoldsOwnEntries(c)]_vars
    /\ [](~processing => \A c \in Calls : ~CallRunning(c))

----------------------------------------------------------------------------
(* Properties of the CSV upload of the page *)

\* The files of the name the page shows as selected.
ShownFiles == {f \in Files : FilePool[f].name = fileName}

\* processCSVFile hands rows to processData: a call leaves for its first await.
ProcessingStarts(c) == calls[c].pc # "suspended" /\ calls'[c].pc = "suspended"

\* C28 as stated: whatever the order of file selections, FileReader load
\* callbacks, clicks on Remove file and clicks on Process, processCSVFile
\* processes only the rows of the file shown as selected, and only if that
\* file passed validateCSVData; after a reset, or after the selection of a
\* file that failed validation, it processes no rows.
C28_ProcessesSelectedFile ==
    [][\A c \in Calls :
          ProcessingStarts(c) =>
              \E f \in ShownFiles :
                  /\ validateCSVData(FileRows(f)).isValid
                  /\ calls'[c].data = FileRows(f)]_vars

----------------------------------------------------------------------------
(* Properties of the warnings of a loaded file *)

InSeq(x, s) == \E k \in 1..Len(s) : s[k] = x

\* validateCSVData is called on the data parseCSV returned.
ValidationFollowsParse == csv.stage = "parsed" /\ csv'.stage = "validated"

\* C29 as stated: when a file is loaded with parseCSV and then
\* validateCSVData, every warning parseCSV gave for a row it skipped,
\* because its column count differs from the header's, is still among the
\* warnings validateCSVData returns and among getStatus().warnings.
C29_SkippedRowsReported ==
    [][ValidationFollowsParse =>
          \A k \in 1..Len(warnings) :
              /\ InSeq(warnings[k], csv'.validation.warnings)
              /\ InSeq(warnings[k], warnings')]_vars

----------------------------------------------------------------------------
(* The two copies of calculatePsychrometricProperties *)

\* What the older copy returns for the arguments of the call made.
Part001_Result ==
    Part001_calculatePsychrometricProperties(calcIn.inputType, calcIn.value1, calcIn.value2,
                                             calcIn.altitude)

\* What src/script.js returns for 'wbt_rh' with the dry bulb value1 + (100 - rh) / 10
\* in place of the one solveDBTFromWBTRH returns.
WbtRhWithTenthRule ==
    FinishAirState(ResolveWbtRhAt(calcIn.value1, calcIn.value2, CalcPressure,
                                  FAdd(calcIn.value1,
                                       FDiv(FSub(Num(100), calcIn.value2), Num(10)))),
                   CalcPressure)

\* C30: the calculatePsychrometricProperties of src/script.js and the one of
\* src/unnamed/part_001 return the same AirState for the kinds dbt_wbt,
\* dbt_rh and dbt_dpt and for an unrecognized kind; for wbt_rh the older
\* copy returns what src/script.js would with dbt = wbt + (100 - RH) / 10 in
\* place of the Newton solver, and the two differ nowhere else.
C30_CopiesAgree ==
    calcDone =>
        IF calcIn.inputType = STR_wbt_rh
        THEN Part001_Result = WbtRhWithTenthRule
        ELSE Part001_Result = calcOut

C30_Witness ==
    /\ calcDone
    /\ calcIn = CoreArgs(STR_wbt_rh, Num(18), Num(65), Zero)
    /\ Part001_Result.value.dbt = Dec(215, -1)
    /\ calcOut.value.dbt # Dec(215, -1)
    /\ Part001_Result.value.wbt = calcOut.value.wbt

====
